---- MODULE Spec2Model ----
(***************************************************************************)
(* Model of the espore firmware builder (builder.go, Build2 pipeline):     *)
(* root indexing, module dependency resolution, library asset selection,   *)
(* device overlay, manifest and image writing; of the older pipeline       *)
(* build() with its LFS image cache; and of the terminal client (cli.go,   *)
(* Dumper): key handlers, commands worker, dumper goroutines.              *)
(*                                                                         *)
(* Relative file paths and module names are sequences of one-character     *)
(* strings, so that Mod2File, filepath.Ext, glob matching and the          *)
(* lexicographic sort are computed the way the code computes them.         *)
(* Root paths, device ids and library names are plain strings.             *)
(***************************************************************************)
EXTENDS Integers, Sequences, FiniteSets, TLC

VARIABLES
    disk,       \* input trees: root path -> (relative path -> file bytes)
    defs,       \* parsed content of site/devices/<d>/firmware.json, per device
    keyboard,   \* the texts the user of the terminal client types in this session
    dist,       \* output directory "dist": file name -> content
    prevDist,   \* the output directory as the previous invocation of Build2 left it
    run,        \* number of the current invocation of Build2
    pc,         \* position in Build2, or in build()
    err,        \* error value Build2 returned (NoErr while none)
    roots,      \* Build2's roots map: root path -> FirmwareRoot
    siteLibs,   \* directory listing of site/lib
    li,         \* loop index into siteLibs
    deviceLibs, \* directory listing of site/devices
    di,         \* loop index into deviceLibs
    fwDef,      \* buildDeviceFirmwareManifest: the device definition read
    devRoots,   \* buildDeviceFirmwareManifest: ordered search roots of the device
    fileMap,    \* buildDeviceFirmwareManifest: path -> *FileEntry2
    mi,         \* loop index into fwDef.Modules
    stack,      \* activation records of AddFilesFromModule
    searched,   \* paths handed to FindInRoots during this device build, in call order
    manifest,   \* the FirmwareManifest2 of the current device
    imgFile,    \* name of the image file being written
    imgBuf,     \* writeFirmwareImage: the payload buffer
    datafiles,  \* writeFirmwareImage: datafile tokens collected so far
    fi,         \* loop index into manifest.Files in writeFirmwareImage
    libsMap,    \* build(): the libs map, library name -> Lib
    imgcache,   \* directory "imgcache": cache file -> compiled LFS image
    lfsLog,     \* history: one record per LFS image build() has provided
    history,    \* CLI.Run: the command lines entered, oldest first
    historyPos, \* CLI.Run: the history cursor
    inputText,  \* the text of the input field
    accessLog,  \* history: the indexes history was read at by the Up and Down handlers
    commands,   \* CLI.Run: the buffer of the commands channel
    commandsClosed, \* close(commands) has run
    submitted,  \* history: the command lines sent on the commands channel, in order
    started,    \* history: the command lines whose command function was called, in order
    updates,    \* the application's queue of functions passed to QueueUpdate
    worker,     \* the commands worker goroutine: position and loop variable
    wg,         \* the worker's WaitGroup counter
    threads,    \* threads[1] is the goroutine running CLI.Run; the others run command functions
    dumping,    \* Dumper.dumping
    quitC,      \* Dumper.quitC: the channel held (0 is nil)
    made,       \* number of channels Dumper.Dump has made
    closedChans, \* the channels closed so far
    dumpers,    \* position of every goroutine Dumper.Dump has started
    exited      \* the process has exited (log.Fatalf, panic)

vars == <<disk, defs, keyboard, dist, prevDist, run, pc, err, roots, siteLibs, li, deviceLibs, di,
          fwDef, devRoots, fileMap, mi, stack, searched, manifest, imgFile, imgBuf,
          datafiles, fi, libsMap, imgcache, lfsLog,
          history, historyPos, inputText, accessLog, commands, commandsClosed, submitted,
          started, updates, worker, wg, threads, dumping, quitC, made, closedChans, dumpers,
          exited>>

inputVars == <<disk, defs, keyboard>>
indexVars == <<roots, siteLibs, li, deviceLibs, di>>
deviceVars == <<fwDef, devRoots, fileMap, mi, stack, searched, manifest>>
imageVars == <<imgFile, imgBuf, datafiles, fi>>
legacyVars == <<libsMap, imgcache, lfsLog>>
historyVars == <<history, historyPos, inputText, accessLog>>
queueVars == <<commands, commandsClosed, submitted, started, updates, worker, wg>>
dumperVars == <<dumping, quitC, made, closedChans, dumpers>>
buildVars == <<dist, prevDist, run, pc, err, indexVars, deviceVars, imageVars>>
cliVars == <<historyVars, queueVars, dumperVars, threads, exited>>

(***************************************************************************)
(* Bounds of the model.                                                    *)
(***************************************************************************)
\* most entry modules a device definition lists
MaxModules == 2
\* most distinct require("...") names one script holds
MaxRequires == 2
\* most invocations of Build2 over the same input trees
MaxRuns == 2
\* most command lines the user submits in one session of the terminal client
MaxCommands == 2

\* capacity of the commands channel
CommandsCap == 10

(***************************************************************************)
(* Generic helpers.                                                        *)
(***************************************************************************)
Range(s) == {s[i] : i \in DOMAIN s}

EmptyMap == [x \in {} |-> x]

\* m with key k set to v (Go: m[k] = v)
Put(m, k, v) == [x \in (DOMAIN m) \cup {k} |-> IF x = k THEN v ELSE m[x]]

\* every sequence that lists the elements of the finite set S once each:
\* the orders in which Go may iterate over a map with key set S
Orderings(S) ==
    {s \in [1..Cardinality(S) -> S] : \A i, j \in 1..Cardinality(S) : s[i] = s[j] => i = j}

NoErr == <<>>

\* fmt.Errorf / errors.New: an error is the sequence of the parts of its message,
\* outermost wrapper first; a part is a fixed text or a formatted argument
Text(s) == [kind |-> "text", val |-> s]
ModuleArg(m) == [kind |-> "module", val |-> m]
FileArg(f) == [kind |-> "file", val |-> f]
NameArg(n) == [kind |-> "name", val |-> n]

(***************************************************************************)
(* Strings as character sequences.                                         *)
(***************************************************************************)
\* byte value of the characters that occur in paths of the model (ASCII)
CharCode(c) ==
    CASE c = "*" -> 42
      [] c = "." -> 46
      [] c = "/" -> 47
      [] c = "1" -> 49
      [] c = "2" -> 50
      [] c = "3" -> 51
      [] c = "a" -> 97
      [] c = "b" -> 98
      [] c = "c" -> 99
      [] c = "d" -> 100
      [] c = "e" -> 101
      [] c = "f" -> 102
      [] c = "g" -> 103
      [] c = "i" -> 105
      [] c = "j" -> 106
      [] c = "l" -> 108
      [] c = "m" -> 109
      [] c = "n" -> 110
      [] c = "o" -> 111
      [] c = "r" -> 114
      [] c = "s" -> 115
      [] c = "u" -> 117
      [] c = "w" -> 119
      [] c = "x" -> 120
      [] c = "y" -> 121
      [] c = "z" -> 122

\* strings.Compare(a, b) < 0: bytewise lexicographic order
RECURSIVE StrLess(_, _)
StrLess(a, b) ==
    IF b = <<>> THEN FALSE
    ELSE IF a = <<>> THEN TRUE
    ELSE IF Head(a) = Head(b) THEN StrLess(Tail(a), Tail(b))
    ELSE CharCode(Head(a)) < CharCode(Head(b))

\* filepath.Join(a, b) for two non-empty clean paths
Join(a, b) == a \o "/" \o b

\* filepath.Ext: the suffix beginning at the last dot of the last path element
Ext(f) ==
    LET dots == {i \in 1..Len(f) : f[i] = "." /\ \A j \in i..Len(f) : f[j] # "/"}
    IN  IF dots = {} THEN <<>>
        ELSE SubSeq(f, CHOOSE i \in dots : \A j \in dots : j <= i, Len(f))

LuaExt == <<".", "l", "u", "a">>

\* strings.ReplaceAll(moduleName, ".", "/") + ".lua"
Mod2File(moduleName) ==
    [i \in 1..Len(moduleName) |-> IF moduleName[i] = "." THEN "/" ELSE moduleName[i]]
        \o LuaExt

\* gobwas/glob, patterns of literals and "*" compiled with separator '/':
\* "*" matches any run of characters other than the separator
RECURSIVE GlobMatch(_, _)
GlobMatch(pattern, s) ==
    IF pattern = <<>> THEN s = <<>>
    ELSE IF Head(pattern) = "*"
         THEN \/ GlobMatch(Tail(pattern), s)
              \/ s # <<>> /\ Head(s) # "/" /\ GlobMatch(pattern, Tail(s))
    ELSE s # <<>> /\ Head(s) = Head(pattern) /\ GlobMatch(Tail(pattern), Tail(s))

(***************************************************************************)
(* Collaborators outside the builder package (espore/utils, crypto/sha1).  *)
(***************************************************************************)
\* sha1 digest: distinct inputs give distinct digests
Sha1(x) == <<"sha1", x>>

\* utils.HashFile: digest of the file's bytes
HashFile(bytes) == Sha1(bytes)

\* os.FileInfo.Size of a file
Size(bytes) == bytes.pad + Cardinality(bytes.requires) + Cardinality(bytes.datafiles)

(***************************************************************************)
(* The input trees.                                                        *)
(***************************************************************************)
CoreRoot == "firmware"
LibDir == "site/lib"
DeviceDir == "site/devices"

\* names a directory under site/lib, or under site/devices, may have, in the
\* order ioutil.ReadDir lists them (sorted by name)
LibPool == <<"l1", "l2">>
DevicePool == <<"d1", "d2">>

FirmwareJSON == <<"f", "i", "r", "m", "w", "a", "r", "e", ".", "j", "s", "o", "n">>

\* ioutil.ReadDir(parent), directories only: the names of the pool present on disk
ReadDir(parent, pool) == SelectSeq(pool, LAMBDA n : Join(parent, n) \in DOMAIN disk)

(***************************************************************************)
(* Inputs of a build: the trees on disk and the device definitions.        *)
(***************************************************************************)
NameA == <<"a">>
NameB == <<"b">>
NameC == <<"l", ".", "c">>
\* a module no root holds a file for
NameZ == <<"z">>

\* a module only a library root holds a file for, and a script only a device
\* root holds
NameY == <<"y">>
NameW == <<"w">>

CfgFile == <<"x", ".", "c", "f", "g">>
LuaGlob == <<"*", ".", "l", "u", "a">>
CfgGlob == <<"*", ".", "c", "f", "g">>

\* a pattern glob.Compile rejects
BadGlob == <<"[", "*">>

CoreModules == {NameA, NameB, NameC}

\* the modules a script of the core root may require
RequireTargets(m) ==
    IF m = NameA THEN {NameB, NameC, NameZ}
    ELSE IF m = NameB THEN {NameA, NameC}
    ELSE {NameA}

Graphs ==
    {g \in [CoreModules -> SUBSET (CoreModules \cup {NameZ})] :
        \A m \in CoreModules : g[m] \subseteq RequireTargets(m) /\ Cardinality(g[m]) <= MaxRequires}

\* the entry-module lists of a device definition
ModuleLists(names) ==
    UNION {[1..n -> {[Name |-> m, Autostart |-> FALSE] : m \in names}] : n \in 0..MaxModules}

\* what a definition may say about one library
LibDefs(name) ==
    {[Name |-> name, IncludeLua |-> TRUE, Include |-> <<>>],
     [Name |-> name, IncludeLua |-> TRUE, Include |-> <<CfgGlob>>],
     [Name |-> name, IncludeLua |-> FALSE, Include |-> <<CfgGlob>>],
     [Name |-> name, IncludeLua |-> FALSE, Include |-> <<LuaGlob>>]}

\* the library lists of a device definition: no library twice
LibLists ==
    {<<>>}
        \cup UNION {{<<x>>} : x \in LibDefs("l1") \cup LibDefs("l2")}
        \cup UNION {{<<x, y>>, <<y, x>>} : x \in LibDefs("l1"), y \in LibDefs("l2")}

File(requires, tokens, pad) == [requires |-> requires, datafiles |-> tokens, pad |-> pad]

\* a tree with the given paths, every file without declarations
PlainTree(paths, pad) == [p \in paths |-> File({}, {}, pad)]

CoreTree(g, tokens) == [p \in {Mod2File(m) : m \in CoreModules} |->
    LET m == CHOOSE x \in CoreModules : Mod2File(x) = p IN File(g[m], tokens[m], 0)]

Definition(device, libs, modules) ==
    [ID |-> "id-" \o device, Name |-> "name-" \o device, Libs |-> libs, Modules |-> modules]

\* The second device has no library and no file but its definition.
Input(g, tokens, lib1, lib2, dev1, libs, modules, modules2) ==
    [disk |-> [r \in {CoreRoot, Join(LibDir, "l1"), Join(LibDir, "l2"),
                      Join(DeviceDir, "d1"), Join(DeviceDir, "d2")} |->
                 CASE r = CoreRoot -> CoreTree(g, tokens)
                   [] r = Join(LibDir, "l1") -> PlainTree(lib1, 1)
                   [] r = Join(LibDir, "l2") -> PlainTree(lib2, 2)
                   [] r = Join(DeviceDir, "d1") -> PlainTree(dev1 \cup {FirmwareJSON}, 3)
                   [] OTHER -> PlainTree({FirmwareJSON}, 4)],
     defs |-> [d \in {"d1", "d2"} |->
                 IF d = "d1" THEN Definition(d, libs, modules)
                 ELSE Definition(d, <<>>, modules2)]]

NoTokens == [m \in CoreModules |-> {}]
TwoTokens == [m \in CoreModules |-> IF m = NameB THEN {"t1", "t2"} ELSE {}]
CycleGraph == [m \in CoreModules |-> IF m = NameA THEN {NameB} ELSE IF m = NameB THEN {NameA} ELSE {}]

\* every dependency graph and entry list, over one layout of the trees
GraphInputs ==
    {Input(g, NoTokens, {Mod2File(NameA)}, {}, {}, <<>>, ms, <<>>) :
        g \in Graphs, ms \in ModuleLists({NameA, NameB, NameZ})}

\* every layout of the libraries and device files, over one dependency graph
LayoutInputs ==
    {Input(CycleGraph, TwoTokens, {Mod2File(NameA), CfgFile}, lib2, dev1, libs,
           <<[Name |-> NameA, Autostart |-> TRUE]>>, <<>>) :
        lib2 \in {{}, {Mod2File(NameA)}, {Mod2File(NameA), CfgFile}},
        dev1 \in SUBSET {Mod2File(NameA), CfgFile},
        libs \in LibLists}

\* every entry list of the second device, the first device fixed
DeviceInputs ==
    {Input(CycleGraph, TwoTokens, {Mod2File(NameA), CfgFile}, {}, {CfgFile},
           <<[Name |-> "l1", IncludeLua |-> TRUE, Include |-> <<CfgGlob>>]>>,
           <<[Name |-> NameB, Autostart |-> TRUE]>>, ms) :
        ms \in ModuleLists({NameA, NameZ})}

\* a definition naming a library with a pattern that does not compile, or a
\* library site/lib has no directory for
FaultyLibDefs ==
    {[Name |-> "l1", IncludeLua |-> FALSE, Include |-> <<BadGlob>>],
     [Name |-> "l3", IncludeLua |-> TRUE, Include |-> <<>>],
     [Name |-> "l3", IncludeLua |-> FALSE, Include |-> <<CfgGlob>>]}

\* library l1 holds y.lua, which requires b, and x.cfg; the device root holds
\* w.lua, which requires l.c
LibraryInput(libDef, modules) ==
    LET base == Input(CycleGraph, NoTokens, {CfgFile}, {}, {}, <<libDef>>, modules, <<>>)
    IN  [base EXCEPT
            !.disk[Join(LibDir, "l1")] = Put(@, Mod2File(NameY), File({NameB}, {}, 1)),
            !.disk[Join(DeviceDir, "d1")] = Put(@, Mod2File(NameW), File({NameC}, {}, 3))]

\* every way of declaring the one library, the entry module in it or none
LibraryInputs ==
    {LibraryInput(libDef, ms) :
        libDef \in LibDefs("l1") \cup FaultyLibDefs,
        ms \in {<<>>, <<[Name |-> NameY, Autostart |-> FALSE]>>}}

Inputs == GraphInputs \cup LayoutInputs \cup DeviceInputs \cup LibraryInputs

(***************************************************************************)
(* ReadDependenciesAndDatafiles and AddRoot.                               *)
(***************************************************************************)
\* The require names and datafile tokens matched in the text are collected in
\* maps (depMap, dfMap) and flattened by ranging over the maps: every order of
\* the distinct names is a possible result.
ReadDependenciesAndDatafiles(bytes) ==
    {[deps |-> d, datafiles |-> t] :
        d \in Orderings(bytes.requires), t \in Orderings(bytes.datafiles)}

\* the FileEntry2 values AddRoot may build for file f of the root at path
EntryChoices(path, f, bytes) ==
    IF Ext(f) = LuaExt
    THEN {[Base |-> path, Path |-> f, Hash |-> HashFile(bytes),
           Dependencies |-> r.deps, Datafiles |-> r.datafiles] :
              r \in ReadDependenciesAndDatafiles(bytes)}
    ELSE {[Base |-> path, Path |-> f, Hash |-> HashFile(bytes),
           Dependencies |-> <<>>, Datafiles |-> <<>>]}

RECURSIVE FilesChoices(_, _, _)
FilesChoices(path, tree, todo) ==
    IF todo = {} THEN {EmptyMap}
    ELSE LET f == CHOOSE x \in todo : TRUE
         IN  {Put(m, f, e) : m \in FilesChoices(path, tree, todo \ {f}),
                             e \in EntryChoices(path, f, tree[f])}

\* AddRoot on success: the roots maps it may leave (one per iteration order of
\* the scanner's maps)
AddRoot(path, allRoots) ==
    {Put(allRoots, path, [BasePath |-> path, Files |-> fs]) :
        fs \in FilesChoices(path, disk[path], DOMAIN disk[path])}

\* the error of a failed utils.EnumerateDir, utils.HashFile or ioutil.ReadFile
IOError(path) == <<Text("io error"), NameArg(path)>>

(***************************************************************************)
(* getDeviceFirmwareRoots, FindInRoots, AddFilesFromModule.                *)
(***************************************************************************)
LibRootPath(libDef) == Join(LibDir, libDef.Name)

\* getDeviceFirmwareRoots with the core root put first instead of last
getDeviceFirmwareRoots_CoreFirst(allRoots, libs) ==
    LET inc == SelectSeq(libs, LAMBDA l : l.IncludeLua)
        missing == {i \in 1..Len(inc) : LibRootPath(inc[i]) \notin DOMAIN allRoots}
    IN  IF missing # {}
        THEN [err |-> <<Text("Cannot find library with name"),
                        NameArg(inc[CHOOSE i \in missing : \A j \in missing : i <= j].Name)>>,
              roots |-> <<>>]
        ELSE [err |-> NoErr,
              roots |-> <<CoreRoot>> \o [i \in 1..Len(inc) |-> LibRootPath(inc[i])]]

\* getDeviceFirmwareRoots that does not look at the IncludeLua flag
getDeviceFirmwareRoots_AllLibs(allRoots, libs) ==
    LET missing == {i \in 1..Len(libs) : LibRootPath(libs[i]) \notin DOMAIN allRoots}
    IN  IF missing # {}
        THEN [err |-> <<Text("Cannot find library with name"),
                        NameArg(libs[CHOOSE i \in missing : \A j \in missing : i <= j].Name)>>,
              roots |-> <<>>]
        ELSE [err |-> NoErr,
              roots |-> [i \in 1..Len(libs) |-> LibRootPath(libs[i])] \o <<CoreRoot>>]

\* The search list is kept as the sequence of the roots' paths; a root's Files
\* map is shared with allRoots (Go copies the struct, not the map).
getDeviceFirmwareRoots(allRoots, libs) ==
    LET inc == SelectSeq(libs, LAMBDA l : l.IncludeLua)
        missing == {i \in 1..Len(inc) : LibRootPath(inc[i]) \notin DOMAIN allRoots}
    IN  IF missing # {}
        THEN [err |-> <<Text("Cannot find library with name"),
                        NameArg(inc[CHOOSE i \in missing : \A j \in missing : i <= j].Name)>>,
              roots |-> <<>>]
        ELSE [err |-> NoErr,
              roots |-> [i \in 1..Len(inc) |-> LibRootPath(inc[i])] \o <<CoreRoot>>]

ErrFileEntryNotFound == <<Text("Cannot find file in firmware roots")>>

\* FindInRoots that goes on after a hit, so that the last root holding the file wins
FindInRoots_Last(fileName, rootSeq) ==
    LET hits == {i \in 1..Len(rootSeq) : fileName \in DOMAIN roots[rootSeq[i]].Files}
    IN  IF hits = {}
        THEN [err |-> <<Text("Cannot find file in firmware roots")>>, entry |-> <<>>]
        ELSE [err |-> NoErr,
              entry |-> roots[rootSeq[CHOOSE i \in hits : \A j \in hits : j <= i]].Files[fileName]]

FindInRoots(fileName, rootSeq) ==
    LET hits == {i \in 1..Len(rootSeq) : fileName \in DOMAIN roots[rootSeq[i]].Files}
    IN  IF hits = {}
        THEN [err |-> ErrFileEntryNotFound, entry |-> <<>>]
        ELSE [err |-> NoErr,
              entry |-> roots[rootSeq[CHOOSE i \in hits : \A j \in hits : i <= j]].Files[fileName]]

\* AddFilesFromModule without the check of line 375
AlreadyAdded_Never(moduleFileName, fm) == FALSE

\* AddFilesFromModule line 375: the module's file is already in the file map
AlreadyAdded(moduleFileName, fm) == moduleFileName \in DOMAIN fm

\* an activation of AddFilesFromModule: i = 0 before line 375 has run,
\* afterwards entry is the entry found and i the next dependency to visit
Frame(moduleName) == [name |-> moduleName, entry |-> <<>>, i |-> 0]

\* the error that reaches buildDeviceFirmwareManifest's caller when FindInRoots
\* fails in the topmost activation of stk: each activation below wraps it
RECURSIVE WrapDependency(_, _)
WrapDependency(stk, k) ==
    IF k = Len(stk)
    THEN <<Text("Error finding"), FileArg(Mod2File(stk[k].name))>> \o ErrFileEntryNotFound
    ELSE <<Text("Cannot resolve dependency"), ModuleArg(stk[k + 1].name),
           Text("of"), FileArg(stk[k].entry.Path)>> \o WrapDependency(stk, k + 1)

ModuleError(stk) ==
    <<Text("Cannot add files from module"), ModuleArg(stk[1].name)>> \o WrapDependency(stk, 1)

(***************************************************************************)
(* AddOtherFiles and AddDeviceSpecificFiles.                               *)
(***************************************************************************)
\* glob.Compile(pattern, '/'): an unclosed character class does not compile
GlobCompiles(pattern) == \A i \in 1..Len(pattern) : pattern[i] # "["

\* the (library, pattern) pairs in the order the two loops of AddOtherFiles visit them
RECURSIVE IncludePairs(_)
IncludePairs(libs) ==
    IF libs = <<>> THEN <<>>
    ELSE [j \in 1..Len(Head(libs).Include) |-> [lib |-> Head(libs), pattern |-> Head(libs).Include[j]]]
             \o IncludePairs(Tail(libs))

\* AddMatching that puts every file of the library root in the map, matched or not
AddMatching_WholeRoot(libRoot, pattern, fm) ==
    [p \in (DOMAIN fm) \cup DOMAIN libRoot.Files |->
        IF p \in DOMAIN libRoot.Files THEN libRoot.Files[p] ELSE fm[p]]

\* lines 402-406: every file of the library root that matches is put in the map
AddMatching(libRoot, pattern, fm) ==
    [p \in (DOMAIN fm) \cup {q \in DOMAIN libRoot.Files : GlobMatch(pattern, q)} |->
        IF p \in DOMAIN libRoot.Files /\ GlobMatch(pattern, p) THEN libRoot.Files[p] ELSE fm[p]]

RECURSIVE AddOtherPairs(_, _, _)
AddOtherPairs(allRoots, pairs, fm) ==
    IF pairs = <<>> THEN [err |-> NoErr, files |-> fm]
    ELSE LET lib == Head(pairs).lib
             pattern == Head(pairs).pattern
         IN  IF ~GlobCompiles(pattern)
             THEN [err |-> <<Text("Error in glob expression, library"), NameArg(lib.Name),
                             Text("syntax error in pattern")>>,
                   files |-> fm]
             ELSE IF LibRootPath(lib) \notin DOMAIN allRoots
             THEN [err |-> <<Text("Cannot find library"), NameArg(lib.Name)>>, files |-> fm]
             ELSE AddOtherPairs(allRoots, Tail(pairs),
                                AddMatching(allRoots[LibRootPath(lib)], pattern, fm))

\* AddOtherFiles that skips the libraries left out of the dependency search
AddOtherFiles_SearchedOnly(allRoots, libs, fm) ==
    AddOtherPairs(allRoots, IncludePairs(SelectSeq(libs, LAMBDA l : l.IncludeLua)), fm)

AddOtherFiles(allRoots, libs, fm) == AddOtherPairs(allRoots, IncludePairs(libs), fm)

\* AddDeviceSpecificFiles keyed by "/" + path, as the older pipeline formats its keys
AddDeviceSpecificFiles_Rooted(deviceRoot, fm) ==
    [p \in (DOMAIN fm) \cup {<<"/">> \o q : q \in DOMAIN deviceRoot.Files} |->
        IF p \in DOMAIN fm THEN fm[p] ELSE deviceRoot.Files[Tail(p)]]

\* AddDeviceSpecificFiles that leaves a path alone when the map already holds it
AddDeviceSpecificFiles_KeepEarlier(deviceRoot, fm) ==
    [p \in (DOMAIN fm) \cup DOMAIN deviceRoot.Files |->
        IF p \in DOMAIN fm THEN fm[p] ELSE deviceRoot.Files[p]]

AddDeviceSpecificFiles(deviceRoot, fm) ==
    [p \in (DOMAIN fm) \cup {deviceRoot.Files[q].Path : q \in DOMAIN deviceRoot.Files} |->
        IF \E q \in DOMAIN deviceRoot.Files : deviceRoot.Files[q].Path = p
        THEN deviceRoot.Files[CHOOSE q \in DOMAIN deviceRoot.Files : deviceRoot.Files[q].Path = p]
        ELSE fm[p]]

(***************************************************************************)
(* Manifest and image serialization.                                       *)
(***************************************************************************)
\* sort.Slice(manifest.Files, by Path): insertion of e into a sorted sequence
RECURSIVE SortedInsert(_, _)
SortedInsert(e, s) ==
    IF s = <<>> THEN <<e>>
    ELSE IF StrLess(e.Path, Head(s).Path) THEN <<e>> \o s
    ELSE <<Head(s)>> \o SortedInsert(e, Tail(s))

RECURSIVE SortFiles(_)
SortFiles(files) ==
    IF files = <<>> THEN <<>> ELSE SortedInsert(Head(files), SortFiles(Tail(files)))

\* writeFirmwareImage without the sort: the files in the order it is given them
SortManifestFiles_None(files) == files

\* lines 480-482 of writeFirmwareImage
SortManifestFiles(files) == SortFiles(files)

\* lines 449-452 of buildDeviceFirmwareManifest: the entries of the file map in
\* the order the range over the map yields them
ManifestFiles(fm, order) == [i \in 1..Len(order) |-> fm[order[i]]]

\* the document utils.WriteJSON writes for a FirmwareManifest2 (Dependencies is
\* tagged json:"-")
ManifestJSON(m) ==
    [name |-> m.Name, id |-> m.ID,
     files |-> [i \in 1..Len(m.Files) |->
                  [base |-> m.Files[i].Base, path |-> m.Files[i].Path,
                   hash |-> m.Files[i].Hash, Datafiles |-> m.Files[i].Datafiles]]]

\* a document whose write failed before its end
TruncatedJSON == [truncated |-> TRUE]

ManifestName(id) == id \o ".json"
ImageName(id) == id \o ".img"

\* lines 472-476: the header of the payload
ImageHeader(m) ==
    << <<"Version: 1 -- HomeNode Device Image File">>,
       <<"Device Id: ", m.ID>>,
       <<"Device Name: ", m.Name>>,
       <<"Total files: ", Len(m.Files) + 1>>,
       <<"">> >>

\* writeFileToImage: path line, size line, raw content
FileRecord(path, size, content) == << <<"path", path>>, <<"size", size>>, <<"raw", content>> >>

\* a Go []string: the nil slice and the empty slice have the same elements but
\* are marshalled differently
NilSlice == [nil |-> TRUE, elems |-> <<>>]
EmptySlice == [nil |-> FALSE, elems |-> <<>>]

\* append(slice, more...): appending nothing gives the slice back
AppendSlice(slice, more) ==
    IF more = <<>> THEN slice ELSE [nil |-> FALSE, elems |-> slice.elems \o more]

\* `var datafiles []string`: the declaration without the initializer
InitialDatafiles_Nil == NilSlice

\* line 470: var datafiles = []string{}
InitialDatafiles == EmptySlice

\* json.Marshal of a []string, and the length of its text: null for the nil
\* slice, otherwise the array of the quoted elements
JSONArray(slice) ==
    IF slice.nil THEN [json |-> "null"] ELSE [json |-> "array", items |-> slice.elems]

RECURSIVE JSONTokensLen(_)
JSONTokensLen(tokens) ==
    IF tokens = <<>> THEN 0
    ELSE Len(Head(tokens)) + 2 + (IF Len(tokens) > 1 THEN 1 ELSE 0) + JSONTokensLen(Tail(tokens))

JSONArrayLen(slice) == IF slice.nil THEN 4 ELSE 2 + JSONTokensLen(slice.elems)

DatafilesName == <<"d", "a", "t", "a", "f", "i", "l", "e", "s", ".", "j", "s", "o", "n">>

\* line 513: the leading line of the image file
ChecksumLine(payload) == <<"Checksum: ", Sha1(payload)>>

(***************************************************************************)
(* Build2, one action per step.                                            *)
(***************************************************************************)
NoDef == [ID |-> "", Name |-> "", Libs |-> <<>>, Modules |-> <<>>]
NoManifest == [ID |-> "", Name |-> "", Files |-> <<>>]

DeviceLocalsReset ==
    /\ fwDef' = NoDef
    /\ devRoots' = <<>>
    /\ fileMap' = EmptyMap
    /\ mi' = 0
    /\ stack' = <<>>
    /\ searched' = <<>>
    /\ manifest' = NoManifest

ImageLocalsReset ==
    /\ imgFile' = ""
    /\ imgBuf' = <<>>
    /\ datafiles' = NilSlice
    /\ fi' = 0

\* a device loop that notes the error and goes on instead of returning it
Return_KeepGoing(e) ==
    /\ pc' = IF e = NoErr THEN "done" ELSE "AddDeviceRoot"
    /\ err' = e
    /\ DeviceLocalsReset
    /\ ImageLocalsReset

\* return e from Build2: the locals of the calls in progress are gone
Return(e) ==
    /\ pc' = IF e = NoErr THEN "done" ELSE "failed"
    /\ err' = e
    /\ DeviceLocalsReset
    /\ ImageLocalsReset

\* what a return from Build2 leaves alone besides the output directory
ReturnFrame == UNCHANGED <<inputVars, cliVars, legacyVars, prevDist, run, indexVars>>

\* lines 520-522
RemoveDirContents ==
    /\ pc = "Build2"
    /\ \/ /\ dist' = EmptyMap
          /\ pc' = "AddCoreRoot"
          /\ UNCHANGED <<inputVars, cliVars, legacyVars, prevDist, run, err, indexVars, deviceVars, imageVars>>
       \/ /\ Return(<<Text("cannot remove dist dir contents")>> \o IOError("dist"))
          /\ UNCHANGED dist
          /\ ReturnFrame

\* lines 524-528
AddCoreRoot ==
    /\ pc = "AddCoreRoot"
    /\ \/ /\ roots' \in AddRoot(CoreRoot, EmptyMap)
          /\ pc' = "ReadLibDir"
          /\ UNCHANGED <<inputVars, cliVars, legacyVars, dist, prevDist, run, err, siteLibs, li, deviceLibs, di,
                         deviceVars, imageVars>>
       \/ /\ Return(IOError(CoreRoot))
          /\ UNCHANGED dist
          /\ ReturnFrame

\* lines 530-533
ReadLibDir ==
    /\ pc = "ReadLibDir"
    /\ \/ /\ siteLibs' = ReadDir(LibDir, LibPool)
          /\ li' = 1
          /\ pc' = "AddLibRoot"
          /\ UNCHANGED <<inputVars, cliVars, legacyVars, dist, prevDist, run, err, roots, deviceLibs, di,
                         deviceVars, imageVars>>
       \/ /\ Return(IOError(LibDir))
          /\ UNCHANGED dist
          /\ ReturnFrame

\* lines 534-541, one iteration
AddLibRoot ==
    /\ pc = "AddLibRoot"
    /\ li <= Len(siteLibs)
    /\ \/ /\ roots' \in AddRoot(Join(LibDir, siteLibs[li]), roots)
          /\ li' = li + 1
          /\ UNCHANGED <<inputVars, cliVars, legacyVars, dist, prevDist, run, pc, err, siteLibs, deviceLibs, di,
                         deviceVars, imageVars>>
       \/ /\ Return(IOError(Join(LibDir, siteLibs[li])))
          /\ UNCHANGED dist
          /\ ReturnFrame

\* lines 543-546, reached when the loop over siteLibs ends
ReadDeviceDir ==
    /\ pc = "AddLibRoot"
    /\ li > Len(siteLibs)
    /\ \/ /\ deviceLibs' = ReadDir(DeviceDir, DevicePool)
          /\ di' = 1
          /\ pc' = "AddDeviceRoot"
          /\ UNCHANGED <<inputVars, cliVars, legacyVars, dist, prevDist, run, err, roots, siteLibs, li,
                         deviceVars, imageVars>>
       \/ /\ Return(IOError(DeviceDir))
          /\ UNCHANGED dist
          /\ ReturnFrame

DevicePath(deviceName) == Join(DeviceDir, deviceName)

\* line 547 (loop head) and line 549: the error AddRoot returns is overwritten
\* by the declaration of line 550 and never looked at
AddDeviceRoot ==
    /\ pc = "AddDeviceRoot"
    /\ di <= Len(deviceLibs)
    /\ \/ roots' \in AddRoot(DevicePath(deviceLibs[di]), roots)
       \/ roots' = roots
    /\ pc' = "buildDeviceFirmwareManifest"
    /\ UNCHANGED <<inputVars, cliVars, legacyVars, dist, prevDist, run, err, siteLibs, li, deviceLibs, di,
                   deviceVars, imageVars>>

\* line 563, reached when the loop over deviceLibs ends
ReturnNil ==
    /\ pc = "AddDeviceRoot"
    /\ di > Len(deviceLibs)
    /\ Return(NoErr)
    /\ UNCHANGED dist
    /\ ReturnFrame

\* buildDeviceFirmwareManifest lines 419-429
ReadDefinition ==
    /\ pc = "buildDeviceFirmwareManifest"
    /\ LET deviceName == deviceLibs[di]
           readable == FirmwareJSON \in DOMAIN disk[DevicePath(deviceName)]
           r == getDeviceFirmwareRoots(roots, defs[deviceName].Libs)
       IN  \/ /\ readable
              /\ r.err = NoErr
              /\ fwDef' = defs[deviceName]
              /\ devRoots' = r.roots
              /\ fileMap' = EmptyMap
              /\ mi' = 1
              /\ pc' = "NextModule"
              /\ UNCHANGED <<inputVars, cliVars, legacyVars, dist, prevDist, run, err, indexVars, stack, searched,
                             manifest, imageVars>>
           \/ /\ readable
              /\ r.err # NoErr
              /\ Return(<<Text("Cannot build firmware roots for"), NameArg(deviceName)>> \o r.err)
              /\ UNCHANGED dist
              /\ ReturnFrame
           \/ /\ Return(<<Text("Cannot read firmware file for"), NameArg(deviceName)>>
                            \o IOError(Join(DevicePath(deviceName), "firmware.json")))
              /\ UNCHANGED dist
              /\ ReturnFrame

\* lines 430-434: the loop over the entry modules calls AddFilesFromModule
NextModule ==
    /\ pc = "NextModule"
    /\ IF mi <= Len(fwDef.Modules)
       THEN /\ stack' = <<Frame(fwDef.Modules[mi].Name)>>
            /\ mi' = mi + 1
            /\ pc' = "AddFilesFromModule"
       ELSE /\ pc' = "AddOtherFiles"
            /\ UNCHANGED <<stack, mi>>
    /\ UNCHANGED <<inputVars, cliVars, legacyVars, dist, prevDist, run, err, indexVars, fwDef, devRoots, fileMap,
                   searched, manifest, imageVars>>

Pop(stk) == SubSeq(stk, 1, Len(stk) - 1)

\* a return that always goes back to the loop over the entry modules, leaving
\* the caller's remaining dependencies unvisited
\* where control goes when the topmost activation returns nil: to the caller's
\* loop over the dependencies, or to the loop over the entry modules (line 430)
AfterReturn_EndWalk(stk) == "NextModule"
AfterReturn(stk) == IF Len(stk) = 1 THEN "NextModule" ELSE "AddFilesFromModule"
ReplaceTop(stk, f) == [stk EXCEPT ![Len(stk)] = f]

\* AddFilesFromModule lines 374-382, in the topmost activation
EnterModule ==
    /\ pc = "AddFilesFromModule"
    /\ stack[Len(stack)].i = 0
    /\ LET moduleFileName == Mod2File(stack[Len(stack)].name)
           found == FindInRoots(moduleFileName, devRoots)
       IN  IF AlreadyAdded(moduleFileName, fileMap)
           THEN /\ stack' = Pop(stack)
                /\ pc' = AfterReturn(stack)
                /\ UNCHANGED <<inputVars, cliVars, legacyVars, dist, prevDist, run, err, indexVars, fwDef, devRoots,
                               fileMap, mi, searched, manifest, imageVars>>
           ELSE IF found.err # NoErr
           THEN /\ Return(ModuleError(stack))
                /\ UNCHANGED dist
                /\ ReturnFrame
           ELSE /\ searched' = Append(searched, moduleFileName)
                /\ fileMap' = Put(fileMap, moduleFileName, found.entry)
                /\ stack' = ReplaceTop(stack, [name |-> stack[Len(stack)].name,
                                               entry |-> found.entry, i |-> 1])
                /\ UNCHANGED <<inputVars, cliVars, legacyVars, dist, prevDist, run, pc, err, indexVars, fwDef,
                               devRoots, mi, manifest, imageVars>>

\* AddFilesFromModule lines 383-388, in the topmost activation
VisitDependency ==
    /\ pc = "AddFilesFromModule"
    /\ stack[Len(stack)].i > 0
    /\ LET top == stack[Len(stack)]
       IN  IF top.i <= Len(top.entry.Dependencies)
           THEN /\ stack' = Append(ReplaceTop(stack, [top EXCEPT !.i = top.i + 1]),
                                   Frame(top.entry.Dependencies[top.i]))
                /\ UNCHANGED pc
           ELSE /\ stack' = Pop(stack)
                /\ pc' = AfterReturn(stack)
    /\ UNCHANGED <<inputVars, cliVars, legacyVars, dist, prevDist, run, err, indexVars, fwDef, devRoots,
                   fileMap, mi, searched, manifest, imageVars>>

\* lines 436-438
CallAddOtherFiles ==
    /\ pc = "AddOtherFiles"
    /\ LET r == AddOtherFiles(roots, fwDef.Libs, fileMap)
       IN  IF r.err = NoErr
           THEN /\ fileMap' = r.files
                /\ pc' = "AddDeviceSpecificFiles"
                /\ UNCHANGED <<inputVars, cliVars, legacyVars, dist, prevDist, run, err, indexVars, fwDef, devRoots,
                               mi, stack, searched, manifest, imageVars>>
           ELSE /\ Return(<<Text("Error adding other files in device"),
                            NameArg(deviceLibs[di])>> \o r.err)
                /\ UNCHANGED dist
                /\ ReturnFrame

\* lines 440-454: the device overlay, then the manifest's file list in the
\* order the range over fileMap yields the entries
CallAddDeviceSpecificFiles ==
    /\ pc = "AddDeviceSpecificFiles"
    /\ LET devicePath == DevicePath(deviceLibs[di])
       IN  IF devicePath \notin DOMAIN roots
           THEN /\ Return(<<Text("Cannot find device root for"), NameArg(deviceLibs[di])>>)
                /\ UNCHANGED dist
                /\ ReturnFrame
           ELSE /\ fileMap' = AddDeviceSpecificFiles(roots[devicePath], fileMap)
                /\ \E order \in Orderings(DOMAIN fileMap') :
                       manifest' = [ID |-> fwDef.ID, Name |-> fwDef.Name,
                                    Files |-> ManifestFiles(fileMap', order)]
                /\ pc' = "WriteJSON"
                /\ UNCHANGED <<inputVars, cliVars, legacyVars, dist, prevDist, run, err, indexVars, fwDef, devRoots,
                               mi, stack, searched, imageVars>>

\* Build2 lines 554-556. A failed write may leave nothing or an incomplete file.
WriteJSON ==
    /\ pc = "WriteJSON"
    /\ \/ /\ dist' = Put(dist, ManifestName(manifest.ID), ManifestJSON(manifest))
          /\ pc' = "writeFirmwareImage"
          /\ UNCHANGED <<inputVars, cliVars, legacyVars, prevDist, run, err, indexVars, deviceVars, imageVars>>
       \/ /\ Return(IOError(Join("dist", ManifestName(manifest.ID))))
          /\ \/ UNCHANGED dist
             \/ dist' = Put(dist, ManifestName(manifest.ID), TruncatedJSON)
          /\ ReturnFrame

\* writeFirmwareImage lines 465-482: os.Create, the header, the sort
CreateImage ==
    /\ pc = "writeFirmwareImage"
    /\ \/ /\ imgFile' = ImageName(manifest.ID)
          /\ dist' = Put(dist, imgFile', <<>>)
          /\ datafiles' = InitialDatafiles
          /\ imgBuf' = ImageHeader(manifest)
          /\ manifest' = [manifest EXCEPT !.Files = SortManifestFiles(manifest.Files)]
          /\ fi' = 1
          /\ pc' = "writeFileToImage"
          /\ UNCHANGED <<inputVars, cliVars, legacyVars, prevDist, run, err, indexVars, fwDef, devRoots, fileMap,
                         mi, stack, searched>>
       \/ /\ Return(IOError(Join("dist", ImageName(manifest.ID))))
          /\ UNCHANGED dist
          /\ ReturnFrame

\* lines 484-505, one iteration: open the source file, append its record
PackFile ==
    /\ pc = "writeFileToImage"
    /\ fi <= Len(manifest.Files)
    /\ LET fe == manifest.Files[fi]
       IN  \/ /\ fe.Base \in DOMAIN disk
              /\ fe.Path \in DOMAIN disk[fe.Base]
              /\ imgBuf' = imgBuf \o FileRecord(fe.Path, Size(disk[fe.Base][fe.Path]),
                                                disk[fe.Base][fe.Path])
              /\ datafiles' = AppendSlice(datafiles, fe.Datafiles)
              /\ fi' = fi + 1
              /\ UNCHANGED <<inputVars, cliVars, legacyVars, dist, prevDist, run, pc, err, indexVars, deviceVars,
                             imgFile>>
           \/ /\ Return(IOError(Join(fe.Base, "file")))
              /\ UNCHANGED dist
              /\ ReturnFrame

\* the parts of the payload a failed io.Copy (line 514) may have written:
\* none, or all but the last
WrittenBeforeFailure(payload) == {<<>>, SubSeq(payload, 1, Len(payload) - 1)}

\* lines 506-516: the datafiles record, the checksum line, the payload; then
\* Build2 goes on to the next device
FinishImage ==
    /\ pc = "writeFileToImage"
    /\ fi > Len(manifest.Files)
    /\ LET payload == imgBuf \o FileRecord(DatafilesName, JSONArrayLen(datafiles),
                                           JSONArray(datafiles))
       IN  \/ /\ dist' = Put(dist, imgFile, <<ChecksumLine(payload)>> \o payload)
              /\ di' = di + 1
              /\ pc' = "AddDeviceRoot"
              /\ DeviceLocalsReset
              /\ ImageLocalsReset
              /\ UNCHANGED <<inputVars, cliVars, legacyVars, prevDist, run, err, roots, siteLibs, li, deviceLibs>>
           \/ /\ \E part \in WrittenBeforeFailure(payload) :
                     dist' = Put(dist, imgFile, <<ChecksumLine(payload)>> \o part)
              /\ Return(IOError(Join("dist", imgFile)))
              /\ ReturnFrame

Next ==
    \/ RemoveDirContents
    \/ AddCoreRoot
    \/ ReadLibDir
    \/ AddLibRoot
    \/ ReadDeviceDir
    \/ AddDeviceRoot
    \/ ReturnNil
    \/ ReadDefinition
    \/ NextModule
    \/ EnterModule
    \/ VisitDependency
    \/ CallAddOtherFiles
    \/ CallAddDeviceSpecificFiles
    \/ WriteJSON
    \/ CreateImage
    \/ PackFile
    \/ FinishImage

\* no terminal client has been made
NoSession ==
    /\ keyboard = {}
    /\ history = <<>>
    /\ historyPos = 0
    /\ inputText = <<>>
    /\ accessLog = {}
    /\ commands = <<>>
    /\ commandsClosed = FALSE
    /\ submitted = <<>>
    /\ started = <<>>
    /\ updates = <<>>
    /\ worker = [pc |-> "none", cmdFunc |-> <<>>]
    /\ wg = 0
    /\ threads = <<>>
    /\ dumping = FALSE
    /\ quitC = 0
    /\ made = 0
    /\ closedChans = {}
    /\ dumpers = <<>>
    /\ exited = FALSE

\* nothing built yet, no call in progress
NothingBuilt ==
    /\ dist = EmptyMap
    /\ prevDist = EmptyMap
    /\ run = 1
    /\ err = NoErr
    /\ roots = EmptyMap
    /\ siteLibs = <<>>
    /\ li = 0
    /\ deviceLibs = <<>>
    /\ di = 0
    /\ fwDef = NoDef
    /\ devRoots = <<>>
    /\ fileMap = EmptyMap
    /\ mi = 0
    /\ stack = <<>>
    /\ searched = <<>>
    /\ manifest = NoManifest
    /\ imgFile = ""
    /\ imgBuf = <<>>
    /\ datafiles = NilSlice
    /\ fi = 0
    /\ libsMap = EmptyMap
    /\ imgcache = EmptyMap
    /\ lfsLog = <<>>

InitLocals ==
    /\ pc = "Build2"
    /\ NothingBuilt
    /\ NoSession

Init ==
    /\ \E input \in Inputs :
          /\ disk = input.disk
          /\ defs = input.defs
    /\ InitLocals

\* one invocation of Build2
Spec == Init /\ [][Next]_vars

(***************************************************************************)
(* Repeated builds over the same input trees.                              *)
(***************************************************************************)
\* Build2 is invoked again after it returned nil; what the finished
\* invocation wrote is remembered for comparison
Rerun ==
    /\ pc = "done"
    /\ run < MaxRuns
    /\ run' = run + 1
    /\ prevDist' = dist
    /\ pc' = "Build2"
    /\ roots' = EmptyMap
    /\ siteLibs' = <<>>
    /\ li' = 0
    /\ deviceLibs' = <<>>
    /\ di' = 0
    /\ UNCHANGED <<inputVars, cliVars, legacyVars, dist, err, deviceVars, imageVars>>

RepeatInputs ==
    {Input(CycleGraph, tokens, {Mod2File(NameA), CfgFile}, {}, dev1,
           <<[Name |-> "l1", IncludeLua |-> lua, Include |-> <<CfgGlob>>]>>,
           <<[Name |-> NameA, Autostart |-> TRUE]>>, <<>>) :
        tokens \in {NoTokens, TwoTokens}, dev1 \in SUBSET {Mod2File(NameA), CfgFile},
        lua \in BOOLEAN}

InitRepeat ==
    /\ \E input \in RepeatInputs :
          /\ disk = input.disk
          /\ defs = input.defs
    /\ InitLocals

NextRepeat == Next \/ Rerun

SpecRepeat == InitRepeat /\ [][NextRepeat]_vars

(***************************************************************************)
(* The older pipeline, build(): packed libraries and the LFS image cache.  *)
(***************************************************************************)
\* the characters of a directory name
Chars(name) ==
    CASE name = "l1" -> <<"l", "1">>
      [] name = "l2" -> <<"l", "2">>
      [] name = "l3" -> <<"l", "3">>
      [] name = "d1" -> <<"d", "1">>
      [] name = "d2" -> <<"d", "2">>

\* filepath.Base: what follows the last separator
Base(f) ==
    LET seps == {i \in 1..Len(f) : f[i] = "/"}
    IN  IF seps = {} THEN f
        ELSE SubSeq(f, (CHOOSE i \in seps : \A j \in seps : j <= i) + 1, Len(f))

\* line 89: the key of a file in lib.files, "/" + libName + "/" + name
LibFileName(libName, f) == <<"/">> \o Chars(libName) \o <<"/">> \o f

\* packLib, lines 73-99, for a directory of plain files: the hash of every
\* file under its key (no script of the model holds an "-- import:" line, so
\* the dependencies are none)
packLib(libName, libPath) ==
    [files |-> [n \in {LibFileName(libName, f) : f \in DOMAIN disk[libPath]} |->
                  HashFile(disk[libPath][Base(n)])],
     dependencies |-> <<>>]

\* line 93, utils.CopyDir(libPath, dist/libName): dist is keyed by the path
\* below "dist"
CopyDir(libName, libPath, out) ==
    LET copied == {LibFileName(libName, f) : f \in DOMAIN disk[libPath]}
    IN  [n \in (DOMAIN out) \cup copied |->
            IF n \in copied THEN disk[libPath][Base(n)] ELSE out[n]]

\* packRecursive(libs, "", basePath), lines 101-120, over the directories
\* names of basePath; st holds the libs map and the output directory
RECURSIVE packRecursive(_, _, _)
packRecursive(st, basePath, names) ==
    IF names = <<>> THEN st
    ELSE LET libName == Head(names)
             libPath == Join(basePath, libName)
         IN  packRecursive([libs |-> Put(st.libs, libName, packLib(libName, libPath)),
                            dist |-> CopyDir(libName, libPath, st.dist)],
                           basePath, Tail(names))

\* lines 159-165: the script files of the libraries fd.LFS lists, in the order
\* the loops meet them (the inner loop ranges over a map)
RECURSIVE LfsEntryOrders(_, _)
LfsEntryOrders(lbs, lfs) ==
    IF lfs = <<>> THEN {<<>>}
    ELSE LET files == lbs[Head(lfs)].files
             lua == {n \in DOMAIN files : Ext(n) = LuaExt}
         IN  {[i \in 1..Len(o) |-> [fileName |-> o[i], hash |-> files[o[i]]]] \o rest :
                 o \in Orderings(lua), rest \in LfsEntryOrders(lbs, Tail(lfs))}

\* fm under the base names of the files of lib (lines 163, 219-221, 223-225)
OverlayLib(files, lib) ==
    [b \in (DOMAIN files) \cup {Base(n) : n \in DOMAIN lib.files} |->
        IF \E n \in DOMAIN lib.files : Base(n) = b
        THEN LET n == CHOOSE x \in DOMAIN lib.files : Base(x) = b
             IN  [fileName |-> n, hash |-> lib.files[n]]
        ELSE files[b]]

\* line 163: the other files of the libraries fd.LFS lists
RECURSIVE LfsOtherFiles(_, _, _)
LfsOtherFiles(lbs, lfs, files) ==
    IF lfs = <<>> THEN files
    ELSE LET lib == lbs[Head(lfs)]
             others == [n \in {x \in DOMAIN lib.files : Ext(x) # LuaExt} |-> lib.files[n]]
         IN  LfsOtherFiles(lbs, Tail(lfs), OverlayLib(files, [files |-> others]))

RECURSIVE InsertByFileName(_, _)
InsertByFileName(e, s) ==
    IF s = <<>> THEN <<e>>
    ELSE IF StrLess(e.fileName, Head(s).fileName) THEN <<e>> \o s
    ELSE <<Head(s)>> \o InsertByFileName(e, Tail(s))

\* build() without the sort of lines 167-169
SortLfsEntries_None(entries) == entries

\* lines 167-169: sort.Slice(lfsEntries, by fileName)
RECURSIVE SortLfsEntries(_)
SortLfsEntries(entries) ==
    IF entries = <<>> THEN <<>>
    ELSE InsertByFileName(Head(entries), SortLfsEntries(Tail(entries)))

\* lines 172-178: the digest of the decoded hashes, one after the other
ContentHash(entries) == Sha1([i \in 1..Len(entries) |-> entries[i].hash])

\* lines 173-175: the files handed to the compiler
LfsFiles(entries) == [i \in 1..Len(entries) |-> entries[i].fileName]

\* line 180: "/<id>-lfs.img"
LfsImgFile(id) == <<"/" \o id \o "-lfs.img">>

\* line 182: imgFile + "." + contentHash, below "imgcache"
CacheImgFile(img, contentHash) == <<img[1], contentHash>>

\* what a failed compiler run may leave at its output path
LuacPartial == <<"luac", <<>>>>

\* a lookup that never finds the artifact
CacheMiss_Always(cache, cacheImgFile) == TRUE

\* line 183: os.Stat(cacheImgFile) says the file does not exist
CacheMiss(cache, cacheImgFile) == cacheImgFile \notin DOMAIN cache

\* utils.Luac(lfsFiles, out): the bytecode of the listed files of dist
Luac(lfsFiles, out) == <<"luac", [i \in 1..Len(lfsFiles) |-> <<lfsFiles[i], out[lfsFiles[i]]>>]>>

\* lines 207-213: the dependencies of a library not yet processed
RECURSIVE AddDependencies(_, _)
AddDependencies(deps, st) ==
    IF deps = <<>> THEN st
    ELSE AddDependencies(Tail(deps),
             IF Head(deps) \in st.processed THEN st
             ELSE [st EXCEPT !.processed = @ \cup {Head(deps)}, !.all = @ \o <<Head(deps)>>])

\* lines 197-215: allLibs, from fd.Libs; ok is FALSE when a library is missing
RECURSIVE AllLibs(_, _, _)
AllLibs(lbs, names, st) ==
    IF names = <<>> THEN st
    ELSE IF Head(names) \in st.processed THEN AllLibs(lbs, Tail(names), st)
    ELSE IF Head(names) \notin DOMAIN lbs THEN [st EXCEPT !.ok = FALSE]
    ELSE LET withDeps == AddDependencies(lbs[Head(names)].dependencies, st)
         IN  AllLibs(lbs, Tail(names),
                     [withDeps EXCEPT !.processed = @ \cup {Head(names)},
                                      !.all = @ \o <<Head(names)>>])

\* lines 217-222: the files of allLibs, a later library over an earlier one
RECURSIVE OverlayLibs(_, _, _)
OverlayLibs(lbs, names, files) ==
    IF names = <<>> THEN [ok |-> TRUE, files |-> files]
    ELSE IF Head(names) \notin DOMAIN lbs THEN [ok |-> FALSE, files |-> files]
    ELSE OverlayLibs(lbs, Tail(names), OverlayLib(files, lbs[Head(names)]))

\* line 194: the entry of the LFS image, under filepath.Base(imgFile)
LfsImgBase(id) == <<id \o "-lfs.img">>

\* lines 226-229 and the document utils.WriteJSON writes for a FirmwareManifest
LegacyManifest(fd, files) ==
    [name |-> fd.Name, id |-> fd.ID,
     files |-> [n \in {files[b].fileName : b \in DOMAIN files} |->
                  files[CHOOSE b \in DOMAIN files : files[b].fileName = n].hash]]

LegacyManifestName(id) == <<id \o ".json">>

(***************************************************************************)
(* Inputs of build(): libraries of plain files, definitions listing LFS.   *)
(***************************************************************************)
\* a library with two scripts of the given contents and one other file
LegacyLibTree(x, y) ==
    Put(Put(PlainTree({CfgFile}, 0), Mod2File(NameA), File({}, {}, x)),
        Mod2File(NameB), File({}, {}, y))

\* what library l2 may hold: the same scripts as l1, the two contents
\* exchanged, or one script only
L2Trees == {LegacyLibTree(1, 2), LegacyLibTree(2, 1), PlainTree({Mod2File(NameA)}, 1)}

LegacyDefinition(device, libNames, lfs) ==
    [ID |-> "id-" \o device, Name |-> "name-" \o device, Libs |-> libNames, LFS |-> lfs]

LegacyInput(l2, lfs1, lfs2) ==
    [disk |-> [r \in {Join(LibDir, "l1"), Join(LibDir, "l2"),
                      Join(DeviceDir, "d1"), Join(DeviceDir, "d2")} |->
                 CASE r = Join(LibDir, "l1") -> LegacyLibTree(1, 2)
                   [] r = Join(LibDir, "l2") -> l2
                   [] OTHER -> PlainTree({FirmwareJSON}, 3)],
     defs |-> [d \in {"d1", "d2"} |->
                 IF d = "d1" THEN LegacyDefinition(d, <<"l1">>, lfs1)
                 ELSE LegacyDefinition(d, <<>>, lfs2)]]

\* the LFS lists of the first device: none, one library, two in either order,
\* one twice, one that does not exist
LfsLists ==
    {<<>>, <<"l1">>, <<"l2">>, <<"l1", "l2">>, <<"l2", "l1">>, <<"l1", "l1">>, <<"l3">>}

LegacyInputs ==
    {LegacyInput(l2, lfs1, lfs2) : l2 \in L2Trees, lfs1 \in LfsLists, lfs2 \in {<<>>, <<"l2">>}}

\* the trees and definitions a later invocation may find instead
RebuildInputs ==
    {LegacyInput(l2, <<"l1", "l2">>, <<"l2">>) : l2 \in L2Trees}
        \cup {LegacyInput(LegacyLibTree(1, 2), <<"l1">>, <<>>)}

(***************************************************************************)
(* build(), one action per step; log.Fatalf ends the process.              *)
(***************************************************************************)
\* what build() does not use
build2Vars == <<prevDist, err, roots, siteLibs, li, deviceVars, imageVars>>

\* log.Fatalf: the process exits, what was written stays
Fatal ==
    /\ pc' = "exited"
    /\ UNCHANGED <<inputVars, cliVars, dist, run, deviceLibs, di, legacyVars, build2Vars>>

\* lines 122-135: dist is emptied, the libraries are packed, site/devices is listed
PackLibs ==
    /\ pc = "build"
    /\ \/ LET core == packRecursive([libs |-> EmptyMap, dist |-> EmptyMap], CoreRoot,
                                    ReadDir(CoreRoot, LibPool))
              st == packRecursive(core, LibDir, ReadDir(LibDir, LibPool))
          IN  /\ libsMap' = st.libs
              /\ dist' = st.dist
              /\ deviceLibs' = ReadDir(DeviceDir, DevicePool)
              /\ di' = 1
              /\ pc' = "device"
              /\ UNCHANGED <<inputVars, cliVars, run, imgcache, lfsLog, build2Vars>>
       \/ Fatal

\* lines 137-150: the device's own directory is packed, its definition read
PackDevice ==
    /\ pc = "device"
    /\ di <= Len(deviceLibs)
    /\ \/ LET d == deviceLibs[di]
          IN  /\ libsMap' = Put(libsMap, d, packLib(d, DevicePath(d)))
              /\ dist' = CopyDir(d, DevicePath(d), dist)
              /\ pc' = "lfs"
              /\ UNCHANGED <<inputVars, cliVars, run, deviceLibs, di, imgcache, lfsLog, build2Vars>>
       \/ Fatal

\* the record of one LFS image provided: what was listed, the files the listed
\* libraries held, the key computed, whether the compiler ran
LfsRecord(fd, contentHash, cacheImgFile, compiled) ==
    [run |-> run, id |-> fd.ID, lfs |-> fd.LFS,
     files |-> [n \in Range(fd.LFS) |-> libsMap[n].files],
     key |-> contentHash, cacheImgFile |-> cacheImgFile,
     cached |-> cacheImgFile \in DOMAIN imgcache, compiled |-> compiled]

\* lines 151-195: the LFS image of the device, compiled or taken from imgcache
ProvideLfs ==
    /\ pc = "lfs"
    /\ LET fd == defs[deviceLibs[di]]
       IN  IF fd.LFS = <<>>
           THEN /\ pc' = "manifest"
                /\ UNCHANGED <<inputVars, cliVars, dist, run, deviceLibs, di, legacyVars, build2Vars>>
           ELSE IF \E i \in DOMAIN fd.LFS : fd.LFS[i] \notin DOMAIN libsMap
           THEN Fatal
           ELSE \E lfsEntries \in LfsEntryOrders(libsMap, fd.LFS) :
                  LET sorted == SortLfsEntries(lfsEntries)
                      contentHash == ContentHash(sorted)
                      img == LfsImgFile(fd.ID)
                      cacheImgFile == CacheImgFile(img, contentHash)
                      miss == CacheMiss(imgcache, cacheImgFile)
                  IN  \/ /\ miss
                         /\ imgcache' = Put(imgcache, cacheImgFile, Luac(LfsFiles(sorted), dist))
                         /\ dist' = Put(dist, img, imgcache'[cacheImgFile])
                         /\ lfsLog' = Append(lfsLog, LfsRecord(fd, contentHash, cacheImgFile, TRUE))
                         /\ pc' = "manifest"
                         /\ UNCHANGED <<inputVars, cliVars, run, deviceLibs, di, libsMap, build2Vars>>
                      \/ /\ miss
                         /\ imgcache' \in {imgcache, Put(imgcache, cacheImgFile, LuacPartial)}
                         /\ lfsLog' = Append(lfsLog, LfsRecord(fd, contentHash, cacheImgFile, TRUE))
                         /\ pc' = "exited"
                         /\ UNCHANGED <<inputVars, cliVars, dist, run, deviceLibs, di, libsMap, build2Vars>>
                      \/ /\ ~miss
                         /\ dist' = Put(dist, img, imgcache[cacheImgFile])
                         /\ lfsLog' = Append(lfsLog, LfsRecord(fd, contentHash, cacheImgFile, FALSE))
                         /\ pc' = "manifest"
                         /\ UNCHANGED <<inputVars, cliVars, run, deviceLibs, di, libsMap, imgcache,
                                        build2Vars>>
                      \/ /\ ~miss
                         /\ lfsLog' = Append(lfsLog, LfsRecord(fd, contentHash, cacheImgFile, FALSE))
                         /\ pc' = "exited"
                         /\ UNCHANGED <<inputVars, cliVars, dist, run, deviceLibs, di, libsMap, imgcache,
                                        build2Vars>>

\* lines 197-237: the files of the listed libraries, then the device's own,
\* and the manifest document
WriteLegacyManifest ==
    /\ pc = "manifest"
    /\ LET d == deviceLibs[di]
           fd == defs[d]
           img == LfsImgFile(fd.ID)
           files == IF fd.LFS = <<>> THEN EmptyMap
                    ELSE Put(LfsOtherFiles(libsMap, fd.LFS, EmptyMap), LfsImgBase(fd.ID),
                             [fileName |-> img, hash |-> HashFile(dist[img])])
           allLibs == AllLibs(libsMap, fd.Libs, [ok |-> TRUE, processed |-> {}, all |-> <<>>])
           libFiles == OverlayLibs(libsMap, allLibs.all, files)
       IN  \/ /\ allLibs.ok
              /\ libFiles.ok
              /\ dist' = Put(dist, LegacyManifestName(fd.ID),
                             LegacyManifest(fd, OverlayLib(libFiles.files, libsMap[d])))
              /\ di' = di + 1
              /\ pc' = "device"
              /\ UNCHANGED <<inputVars, cliVars, run, deviceLibs, legacyVars, build2Vars>>
           \/ Fatal

\* line 240: every device folder has been handled
BuildReturns ==
    /\ pc = "device"
    /\ di > Len(deviceLibs)
    /\ pc' = "returned"
    /\ UNCHANGED <<inputVars, cliVars, dist, run, deviceLibs, di, legacyVars, build2Vars>>

\* build() is invoked again, over the same trees or over edited ones; only
\* imgcache is left from the invocations before
Rebuild ==
    /\ pc \in {"returned", "exited"}
    /\ run < MaxRuns
    /\ run' = run + 1
    /\ \E input \in RebuildInputs \cup {[disk |-> disk, defs |-> defs]} :
          /\ disk' = input.disk
          /\ defs' = input.defs
    /\ pc' = "build"
    /\ libsMap' = EmptyMap
    /\ deviceLibs' = <<>>
    /\ di' = 0
    /\ UNCHANGED <<keyboard, cliVars, dist, imgcache, lfsLog, build2Vars>>

InitBuild ==
    /\ \E input \in LegacyInputs :
          /\ disk = input.disk
          /\ defs = input.defs
    /\ pc = "build"
    /\ NothingBuilt
    /\ NoSession

NextBuild ==
    \/ PackLibs
    \/ PackDevice
    \/ ProvideLfs
    \/ WriteLegacyManifest
    \/ BuildReturns
    \/ Rebuild

\* invocations of build(), one after the other
SpecBuild == InitBuild /\ [][NextBuild]_vars

(***************************************************************************)
(* The terminal client (cli.go, Dumper): the goroutine running CLI.Run and *)
(* the event loop, the commands worker, the goroutines running command     *)
(* functions, and the dumper goroutines. Every access to Dumper.dumping    *)
(* and Dumper.quitC is a step of its own: the fields are shared without    *)
(* synchronization, and every order of the accesses is a behaviour.        *)
(***************************************************************************)
MainThread == 1

\* a thread: its position, the channel its receive waits on, its command
\* line, whether it is panicking; seen is history, the number of goroutines
\* Dump had started when the thread last called Stop
Thread(label, cmdline) ==
    [pc |-> label, ch |-> 0, cmd |-> cmdline, panicking |-> FALSE, seen |-> 0]

At(self, label) == ~exited /\ self \in DOMAIN threads /\ threads[self].pc = label

Goto(self, label) == threads' = [threads EXCEPT ![self].pc = label]

\* where a thread goes on when Dump returns: Run enters the event loop (line
\* 377), parseCommandLine returns (Dump is its deferred call, line 260)
AfterDump(self) == IF self = MainThread THEN "appRun" ELSE "cmdReturn"

\* where a thread goes on when Stop returns: Run returns (Stop is its deferred
\* call, line 372), parseCommandLine calls the handler (line 261)
AfterStop(self) == IF self = MainThread THEN "runReturned" ELSE "handler"

\* Dumper.Dump line 18
Dump18(self) ==
    /\ At(self, "Dump18")
    /\ dumping' = TRUE
    /\ Goto(self, "Dump19")
    /\ UNCHANGED <<inputVars, legacyVars, buildVars, historyVars, queueVars, quitC, made,
                   closedChans, dumpers, exited>>

\* Dumper.Dump line 19
Dump19(self) ==
    /\ At(self, "Dump19")
    /\ made' = made + 1
    /\ quitC' = made + 1
    /\ Goto(self, "Dump21")
    /\ UNCHANGED <<inputVars, legacyVars, buildVars, historyVars, queueVars, dumping,
                   closedChans, dumpers, exited>>

\* Dumper.Dump line 21: the goroutine starts at the loop test of line 23
Dump21(self) ==
    /\ At(self, "Dump21")
    /\ dumpers' = Append(dumpers, "loop")
    /\ Goto(self, AfterDump(self))
    /\ UNCHANGED <<inputVars, legacyVars, buildVars, historyVars, queueVars, dumping, quitC,
                   made, closedChans, exited>>

\* Dumper.Stop line 39
Stop39(self) ==
    /\ At(self, "Stop39")
    /\ dumping' = FALSE
    /\ threads' = [threads EXCEPT ![self].pc = "Stop40", ![self].seen = Len(dumpers)]
    /\ UNCHANGED <<inputVars, legacyVars, buildVars, historyVars, queueVars, quitC, made,
                   closedChans, dumpers, exited>>

\* Dumper.Stop line 40: the channel expression d.quitC is evaluated
Stop40(self) ==
    /\ At(self, "Stop40")
    /\ threads' = [threads EXCEPT ![self].ch = quitC, ![self].pc = "Receive"]
    /\ UNCHANGED <<inputVars, legacyVars, buildVars, historyVars, queueVars, dumperVars, exited>>

\* a receive that does not wait for the channel to be closed
QuitClosed_NoWait(ch, closed) == TRUE

\* a receive from a channel nothing is ever sent on returns once the channel
\* is closed; a receive from the nil channel never returns
QuitClosed(ch, closed) == ch \in closed

\* Dumper.Stop line 40: the receive returns, and Stop with it. Run's deferred
\* Stop returns into the panic when app.Run failed (line 378).
Receive(self) ==
    /\ At(self, "Receive")
    /\ QuitClosed(threads[self].ch, closedChans)
    /\ IF threads[self].panicking
       THEN exited' = TRUE /\ UNCHANGED threads
       ELSE Goto(self, AfterStop(self)) /\ UNCHANGED exited
    /\ UNCHANGED <<inputVars, legacyVars, buildVars, historyVars, queueVars, dumperVars>>

SetDumper(g, label) == dumpers' = [dumpers EXCEPT ![g] = label]

\* the goroutine of lines 21-34, line 23: the loop test reads d.dumping
DumperLoop(g) ==
    /\ ~exited
    /\ g \in DOMAIN dumpers
    /\ dumpers[g] = "loop"
    /\ SetDumper(g, IF dumping THEN "read" ELSE "close")
    /\ UNCHANGED <<inputVars, legacyVars, buildVars, historyVars, queueVars, threads, dumping,
                   quitC, made, closedChans, exited>>

\* lines 24-31: the read returns bytes, which are written to the text view,
\* or io.EOF, and the loop goes on; any other error ends the process
DumperRead(g) ==
    /\ ~exited
    /\ g \in DOMAIN dumpers
    /\ dumpers[g] = "read"
    /\ \/ SetDumper(g, "loop") /\ UNCHANGED exited
       \/ exited' = TRUE /\ UNCHANGED dumpers
    /\ UNCHANGED <<inputVars, legacyVars, buildVars, historyVars, queueVars, threads, dumping,
                   quitC, made, closedChans>>

\* line 33: close(d.quitC), with d.quitC read now; closing a closed or nil
\* channel panics
DumperClose(g) ==
    /\ ~exited
    /\ g \in DOMAIN dumpers
    /\ dumpers[g] = "close"
    /\ IF quitC = 0 \/ quitC \in closedChans
       THEN exited' = TRUE /\ UNCHANGED <<dumpers, closedChans>>
       ELSE /\ closedChans' = closedChans \cup {quitC}
            /\ SetDumper(g, "exited")
            /\ UNCHANGED exited
    /\ UNCHANGED <<inputVars, legacyVars, buildVars, historyVars, queueVars, threads, dumping,
                   quitC, made>>

(***************************************************************************)
(* Command lines: strings.TrimSpace, commandRegex, strings.Split.          *)
(***************************************************************************)
\* strings.TrimSpace
RECURSIVE TrimLeft(_)
TrimLeft(text) == IF text # <<>> /\ Head(text) = " " THEN TrimLeft(Tail(text)) ELSE text

RECURSIVE TrimRight(_)
TrimRight(text) ==
    IF text # <<>> /\ text[Len(text)] = " " THEN TrimRight(SubSeq(text, 1, Len(text) - 1)) ELSE text

TrimSpace(text) == TrimRight(TrimLeft(text))

\* the text up to the first space
RECURSIVE Word(_)
Word(text) == IF text = <<>> \/ Head(text) = " " THEN <<>> ELSE <<Head(text)>> \o Word(Tail(text))

\* commandRegex = ^\/([^ ]*) *(.*)$ on a one-line text: match[1] and match[2],
\* or no match
FindStringSubmatch(cmdline) ==
    IF cmdline # <<>> /\ Head(cmdline) = "/"
    THEN LET name == Word(Tail(cmdline))
         IN  [matched |-> TRUE, command |-> name,
              rest |-> TrimLeft(SubSeq(cmdline, Len(name) + 2, Len(cmdline)))]
    ELSE [matched |-> FALSE, command |-> <<>>, rest |-> <<>>]

\* len(strings.Split(text, " ")): one more than the number of spaces
SplitLen(text) == 1 + Cardinality({i \in DOMAIN text : text[i] = " "})

\* the handlers table: a command that takes any parameters and one that
\* wants two
commandHandlers == [name \in {<<"h">>, <<"p">>} |-> [minParameters |-> IF name = <<"h">> THEN 0 ELSE 2]]

\* what the user may type: a line for the device with and without blanks
\* around it and a command with a handler; or a command with a handler, one
\* without, and one that lacks parameters
Keyboards ==
    {{<<" ">>, <<"l">>, <<" ", "l", " ">>, <<"/", "h">>},
     {<<"/", "h">>, <<"/", "x">>, <<"/", "p">>}}

(***************************************************************************)
(* CLI.Run: key handlers of the input field (lines 322-365).               *)
(***************************************************************************)
\* lines 338-342
Remember(cmd) ==
    LET lh == Len(history)
    IN  IF lh = 0 \/ (lh > 0 /\ history[lh] # cmd)
        THEN /\ history' = Append(history, cmd)
             /\ historyPos' = lh + 1
        ELSE UNCHANGED <<history, historyPos>>

\* lines 326-342, key Enter, pressed on the text the field holds or on what
\* the user has typed over it; the send waits while the channel's buffer is full
Enter ==
    /\ At(MainThread, "appRun")
    /\ \E text \in keyboard \cup {inputText} :
          LET cmd == TrimSpace(text)
          IN  IF Len(cmd) = 0
              THEN /\ inputText' = text
                   /\ UNCHANGED <<history, historyPos, commands, submitted>>
              ELSE /\ Len(submitted) < MaxCommands
                   /\ Len(commands) < CommandsCap
                   /\ inputText' = <<>>
                   /\ commands' = Append(commands, cmd)
                   /\ submitted' = Append(submitted, cmd)
                   /\ Remember(cmd)
    /\ UNCHANGED <<inputVars, legacyVars, buildVars, accessLog, commandsClosed, started, updates,
                   worker, wg, dumperVars, threads, exited>>

\* input.SetText(history[historyPos]): the index is zero-based; an index out
\* of range panics
ReadHistory(index) ==
    /\ accessLog' = accessLog \cup {[index |-> index, len |-> Len(history)]}
    /\ IF index >= 0 /\ index < Len(history)
       THEN inputText' = history[index + 1] /\ UNCHANGED exited
       ELSE exited' = TRUE /\ UNCHANGED inputText

\* lines 348-353, key Up
Up ==
    /\ At(MainThread, "appRun")
    /\ IF historyPos > 0
       THEN /\ historyPos' = historyPos - 1
            /\ ReadHistory(historyPos')
       ELSE UNCHANGED <<historyPos, inputText, accessLog, exited>>
    /\ UNCHANGED <<inputVars, legacyVars, buildVars, history, queueVars, dumperVars, threads>>

\* key Down that lets the cursor move up to len(history)
Down_OffByOne ==
    /\ At(MainThread, "appRun")
    /\ IF historyPos < Len(history)
       THEN /\ historyPos' = historyPos + 1
            /\ ReadHistory(historyPos')
       ELSE /\ inputText' = <<>>
            /\ UNCHANGED <<historyPos, accessLog, exited>>
    /\ UNCHANGED <<inputVars, legacyVars, buildVars, history, queueVars, dumperVars, threads>>

\* lines 354-361, key Down
Down ==
    /\ At(MainThread, "appRun")
    /\ IF historyPos < Len(history) - 1
       THEN /\ historyPos' = historyPos + 1
            /\ ReadHistory(historyPos')
       ELSE /\ inputText' = <<>>
            /\ UNCHANGED <<historyPos, accessLog, exited>>
    /\ UNCHANGED <<inputVars, legacyVars, buildVars, history, queueVars, dumperVars, threads>>

(***************************************************************************)
(* CLI.Run: the commands worker (lines 306-320), the event loop, the        *)
(* shutdown (lines 377-382), and parseCommandLine in a command goroutine.  *)
(***************************************************************************)
SetWorker(label) == worker' = [worker EXCEPT !.pc = label]

\* line 309: the range receives the next command function, or ends when the
\* channel is closed and empty
WorkerRange ==
    /\ ~exited
    /\ worker.pc = "range"
    /\ IF commands # <<>>
       THEN /\ worker' = [pc |-> "Add", cmdFunc |-> Head(commands)]
            /\ commands' = Tail(commands)
       ELSE /\ commandsClosed
            /\ SetWorker("ended")
            /\ UNCHANGED commands
    /\ UNCHANGED <<inputVars, legacyVars, buildVars, historyVars, commandsClosed, submitted,
                   started, updates, wg, dumperVars, threads, exited>>

\* lines 310-316: wg.Add(1) and app.QueueUpdate pass the function to the event loop
WorkerQueueUpdate ==
    /\ ~exited
    /\ worker.pc = "Add"
    /\ wg' = wg + 1
    /\ updates' = Append(updates, worker.cmdFunc)
    /\ SetWorker("Wait")
    /\ UNCHANGED <<inputVars, legacyVars, buildVars, historyVars, commands, commandsClosed,
                   submitted, started, dumperVars, threads, exited>>

\* a Wait that returns at once
WaitDone_NoWait(counter) == TRUE

\* sync.WaitGroup.Wait returns when the counter is zero
WaitDone(counter) == counter = 0

\* line 317
WorkerWait ==
    /\ ~exited
    /\ worker.pc = "Wait"
    /\ WaitDone(wg)
    /\ SetWorker("range")
    /\ UNCHANGED <<inputVars, legacyVars, buildVars, historyVars, commands, commandsClosed,
                   submitted, started, updates, wg, dumperVars, threads, exited>>

\* the event loop of app.Run takes a queued function and runs it: lines
\* 312-315 start a goroutine for the command function
RunUpdate ==
    /\ At(MainThread, "appRun")
    /\ updates # <<>>
    /\ updates' = Tail(updates)
    /\ threads' = Append(threads, Thread("cmdFunc", Head(updates)))
    /\ UNCHANGED <<inputVars, legacyVars, buildVars, historyVars, commands, commandsClosed,
                   submitted, started, worker, wg, dumperVars, exited>>

\* line 377: app.Run returns, nil when the application was stopped (the user
\* quits, or a handler stops it), or with an error, which panics (line 378):
\* the deferred Stop runs and the process ends
AppRunReturns ==
    /\ At(MainThread, "appRun")
    /\ \/ Goto(MainThread, "close")
       \/ threads' = [threads EXCEPT ![MainThread].pc = "Stop39", ![MainThread].panicking = TRUE]
    /\ UNCHANGED <<inputVars, legacyVars, buildVars, historyVars, queueVars, dumperVars, exited>>

\* line 380, then the deferred call of line 372
CloseCommands ==
    /\ At(MainThread, "close")
    /\ commandsClosed' = TRUE
    /\ Goto(MainThread, "Stop39")
    /\ UNCHANGED <<inputVars, legacyVars, buildVars, historyVars, commands, submitted, started,
                   updates, worker, wg, dumperVars, exited>>

\* lines 332-337 and 245-264: the command function calls parseCommandLine,
\* which sends the line to the device, reports an unknown command or missing
\* parameters, or goes on to stop the dumper for the handler
CallCommand(self) ==
    /\ At(self, "cmdFunc")
    /\ started' = Append(started, threads[self].cmd)
    /\ LET match == FindStringSubmatch(threads[self].cmd)
       IN  IF ~match.matched THEN Goto(self, "cmdReturn")
           ELSE IF match.command \notin DOMAIN commandHandlers THEN Goto(self, "cmdReturn")
           ELSE IF SplitLen(match.rest) < commandHandlers[match.command].minParameters
           THEN Goto(self, "cmdReturn")
           ELSE Goto(self, "Stop39")
    /\ UNCHANGED <<inputVars, legacyVars, buildVars, historyVars, commands, commandsClosed,
                   submitted, updates, worker, wg, dumperVars, exited>>

\* line 261: the handler runs and returns; the deferred Dump of line 260 follows
RunHandler(self) ==
    /\ At(self, "handler")
    /\ Goto(self, "Dump18")
    /\ UNCHANGED <<inputVars, legacyVars, buildVars, historyVars, queueVars, dumperVars, exited>>

\* lines 334-336 and 313: the command function returns and wg.Done runs
CommandReturns(self) ==
    /\ At(self, "cmdReturn")
    /\ wg' = wg - 1
    /\ Goto(self, "ended")
    /\ UNCHANGED <<inputVars, legacyVars, buildVars, historyVars, commands, commandsClosed,
                   submitted, started, updates, worker, dumperVars, exited>>

\* CLI.Run up to line 371: the worker waits for commands, Run calls Dump
InitCLI ==
    /\ disk = EmptyMap
    /\ defs = EmptyMap
    /\ keyboard \in Keyboards
    /\ pc = "cli"
    /\ NothingBuilt
    /\ history = <<>>
    /\ historyPos = 0
    /\ inputText = <<>>
    /\ accessLog = {}
    /\ commands = <<>>
    /\ commandsClosed = FALSE
    /\ submitted = <<>>
    /\ started = <<>>
    /\ updates = <<>>
    /\ worker = [pc |-> "range", cmdFunc |-> <<>>]
    /\ wg = 0
    /\ threads = <<Thread("Dump18", <<>>)>>
    /\ dumping = FALSE
    /\ quitC = 0
    /\ made = 0
    /\ closedChans = {}
    /\ dumpers = <<>>
    /\ exited = FALSE

NextCLI ==
    \/ \E self \in DOMAIN threads : Dump18(self)
    \/ \E self \in DOMAIN threads : Dump19(self)
    \/ \E self \in DOMAIN threads : Dump21(self)
    \/ \E self \in DOMAIN threads : Stop39(self)
    \/ \E self \in DOMAIN threads : Stop40(self)
    \/ \E self \in DOMAIN threads : Receive(self)
    \/ \E g \in DOMAIN dumpers : DumperLoop(g)
    \/ \E g \in DOMAIN dumpers : DumperRead(g)
    \/ \E g \in DOMAIN dumpers : DumperClose(g)
    \/ Enter
    \/ Up
    \/ Down
    \/ WorkerRange
    \/ WorkerQueueUpdate
    \/ WorkerWait
    \/ RunUpdate
    \/ AppRunReturns
    \/ CloseCommands
    \/ \E self \in DOMAIN threads : CallCommand(self)
    \/ \E self \in DOMAIN threads : RunHandler(self)
    \/ \E self \in DOMAIN threads : CommandReturns(self)

SpecCLI == InitCLI /\ [][NextCLI]_vars

\* the steps of the commands worker, and of the thread self
WorkerStep == WorkerRange \/ WorkerQueueUpdate \/ WorkerWait

ThreadStep(self) ==
    \/ Dump18(self) \/ Dump19(self) \/ Dump21(self)
    \/ Stop39(self) \/ Stop40(self) \/ Receive(self)
    \/ CallCommand(self) \/ RunHandler(self) \/ CommandReturns(self)

DumperStep(g) == DumperLoop(g) \/ DumperRead(g) \/ DumperClose(g)

\* The Go scheduler runs every goroutine that can take a step, a read from the
\* session returns, and the event loop, while it runs, takes the functions
\* queued for it. When the user presses a key, and when the application is
\* stopped, is up to the user.
Scheduling ==
    /\ WF_vars(WorkerStep)
    /\ WF_vars(RunUpdate)
    /\ WF_vars(CloseCommands)
    /\ \A self \in 1..(MaxCommands + 1) : WF_vars(ThreadStep(self))
    /\ \A g \in 1..(MaxCommands + 1) : WF_vars(DumperStep(g))

SpecCLIFair == SpecCLI /\ Scheduling


(***************************************************************************)
(* Vocabulary of the properties.                                           *)
(***************************************************************************)
\* the device buildDeviceFirmwareManifest is working on
InDeviceBuild ==
    pc \in {"NextModule", "AddFilesFromModule", "AddOtherFiles", "AddDeviceSpecificFiles",
            "WriteJSON", "writeFirmwareImage", "writeFileToImage"}
CurrentDevice == deviceLibs[di]

\* the module stage (lines 430-434) has ended without error
ModulesResolved == pc \in {"AddOtherFiles", "AddDeviceSpecificFiles"}

\* the file set is final: all three stages have run
FileSetFinal == pc \in {"WriteJSON", "writeFirmwareImage", "writeFileToImage"}

\* every path some indexed root holds
IndexedPaths == UNION {DOMAIN roots[r].Files : r \in DOMAIN roots}

\* the paths reachable from the entry modules through the dependencies of the
\* entries the file map holds
RECURSIVE DependencyClosure(_)
DependencyClosure(paths) ==
    LET more == paths \cup UNION {{Mod2File(d) : d \in Range(fileMap[p].Dependencies)} :
                                     p \in paths \cap DOMAIN fileMap}
    IN  IF more = paths THEN paths ELSE DependencyClosure(more)

EntryPaths == {Mod2File(fwDef.Modules[i].Name) : i \in DOMAIN fwDef.Modules}

NoRepeats(s) == \A i, j \in DOMAIN s : s[i] = s[j] => i = j

AllEntries == UNION {{roots[r].Files[p] : p \in DOMAIN roots[r].Files} : r \in DOMAIN roots}

MostDependencies ==
    LET lens == {Len(e.Dependencies) : e \in AllEntries} \cup {0}
    IN  CHOOSE n \in lens : \A m \in lens : m <= n

RECURSIVE RemainingVisits(_)
RemainingVisits(stk) ==
    IF stk = <<>> THEN 0
    ELSE (IF Head(stk).i = 0 THEN 0 ELSE Len(Head(stk).entry.Dependencies) - Head(stk).i + 1)
             + RemainingVisits(Tail(stk))

\* a measure of the work AddFilesFromModule has left: paths not yet recorded,
\* dependencies not yet visited, activations not yet entered or returned
Work ==
    (3 * MostDependencies + 2) * Cardinality(IndexedPaths \ DOMAIN fileMap)
        + 3 * RemainingVisits(stack)
        + Len(stack)
        + Cardinality({k \in DOMAIN stack : stack[k].i = 0})

(***************************************************************************)
(* C1.  Cycle termination.                                                 *)
(***************************************************************************)
C1_State ==
    /\ NoRepeats(searched)
    /\ pc = "AddFilesFromModule" => ENABLED (EnterModule \/ VisitDependency)
    /\ pc = "AddOtherFiles" => DOMAIN fileMap = DependencyClosure(EntryPaths)

C1_Step == pc = "AddFilesFromModule" /\ pc' # "failed" => Work' < Work

\* C1: resolving terminates on every dependency graph, cyclic ones included:
\* each step of AddFilesFromModule that does not fail lowers the natural number
\* Work and a step is always possible until the call returns; no path is handed
\* to FindInRoots twice in a device build; and when the module stage ends the
\* file map holds exactly the paths reachable from the entry modules (for A
\* requiring B and B requiring A: exactly the paths of A and B).
C1_CycleTermination == [](C1_State) /\ [][C1_Step]_vars

\* A requires B, B requires A, A is the only entry module, and the module
\* stage has ended with exactly the two paths, each searched once
C1_Witness ==
    /\ pc = "AddOtherFiles"
    /\ Len(fwDef.Modules) = 1
    /\ fwDef.Modules[1].Name = NameA
    /\ DOMAIN fileMap = {Mod2File(NameA), Mod2File(NameB)}
    /\ fileMap[Mod2File(NameA)].Dependencies = <<NameB>>
    /\ fileMap[Mod2File(NameB)].Dependencies = <<NameA>>
    /\ searched = <<Mod2File(NameA), Mod2File(NameB)>>

(***************************************************************************)
(* C2.  No duplicate paths.                                                *)
(***************************************************************************)
Paths(files) == [i \in DOMAIN files |-> files[i].Path]

\* the manifest documents that were written whole
WholeManifests ==
    {dist[k] : k \in {n \in {ManifestName(defs[d].ID) : d \in DOMAIN defs} :
                         n \in DOMAIN dist /\ "files" \in DOMAIN dist[n]}}

\* C2: the file map is keyed by the path of the entry it holds, the manifest's
\* file list holds every entry of the final file map once, and no manifest
\* document written to dist holds two entries with the same path (a module two
\* others require is there once).
C2_NoDuplicatePaths ==
    /\ \A p \in DOMAIN fileMap : fileMap[p].Path = p
    /\ NoRepeats(Paths(manifest.Files))
    /\ FileSetFinal => /\ Range(manifest.Files) = Range(fileMap)
                       /\ Len(manifest.Files) = Cardinality(DOMAIN fileMap)
    /\ \A doc \in WholeManifests : NoRepeats([i \in DOMAIN doc.files |-> doc.files[i].path])

\* a diamond: both entry modules A and B require C, and the manifest about to
\* be written lists the file of C once
C2_Witness ==
    /\ pc = "WriteJSON"
    /\ Len(fwDef.Modules) = 2
    /\ fwDef.Modules[1].Name = NameA
    /\ fwDef.Modules[2].Name = NameB
    /\ NameC \in Range(fileMap[Mod2File(NameA)].Dependencies)
    /\ NameC \in Range(fileMap[Mod2File(NameB)].Dependencies)
    /\ Cardinality({i \in DOMAIN manifest.Files : manifest.Files[i].Path = Mod2File(NameC)}) = 1

(***************************************************************************)
(* C3.  Stage precedence.                                                  *)
(***************************************************************************)
DeviceRootFiles == roots[DevicePath(CurrentDevice)].Files

\* the positions of IncludePairs(fwDef.Libs) whose library root holds path p
\* under a matching pattern
MatchingPairs(p) ==
    LET pairs == IncludePairs(fwDef.Libs)
    IN  {k \in DOMAIN pairs :
            /\ LibRootPath(pairs[k].lib) \in DOMAIN roots
            /\ p \in DOMAIN roots[LibRootPath(pairs[k].lib)].Files
            /\ GlobMatch(pairs[k].pattern, p)}

\* the entry of p in the root of the last library whose pattern selects p
LastSelected(p) ==
    LET pairs == IncludePairs(fwDef.Libs)
        k == CHOOSE x \in MatchingPairs(p) : \A y \in MatchingPairs(p) : y <= x
    IN  roots[LibRootPath(pairs[k].lib)].Files[p]

\* the manifest document of the current device, once written
CurrentManifestDoc == dist[ManifestName(fwDef.ID)]

\* C3: after the library stage every path a library pattern selects holds the
\* entry of the last library selecting it, whatever the module stage recorded;
\* in the final file set every file of the device's own root holds the device
\* root's entry and the selected paths outside the device root still hold the
\* library's entry; the manifest written lists the device root's hash for
\* every file of the device root.
C3_StagePrecedence ==
    /\ pc = "AddDeviceSpecificFiles" =>
          \A p \in IndexedPaths : MatchingPairs(p) # {} =>
              p \in DOMAIN fileMap /\ fileMap[p] = LastSelected(p)
    /\ FileSetFinal =>
          /\ \A p \in DOMAIN DeviceRootFiles :
                p \in DOMAIN fileMap /\ fileMap[p] = DeviceRootFiles[p]
          /\ \A p \in IndexedPaths \ DOMAIN DeviceRootFiles : MatchingPairs(p) # {} =>
                p \in DOMAIN fileMap /\ fileMap[p] = LastSelected(p)
    /\ pc \in {"writeFirmwareImage", "writeFileToImage"} =>
          \A p \in DOMAIN DeviceRootFiles :
              \E i \in DOMAIN CurrentManifestDoc.files :
                  /\ CurrentManifestDoc.files[i].path = p
                  /\ CurrentManifestDoc.files[i].base = DevicePath(CurrentDevice)
                  /\ CurrentManifestDoc.files[i].hash =
                         HashFile(disk[DevicePath(CurrentDevice)][p])

\* a.lua was recorded first by the module stage, is in a library
\* root under a selecting pattern, and in the device root; the manifest written
\* lists it with the device root's hash
C3_Witness ==
    /\ pc = "writeFirmwareImage"
    /\ Mod2File(NameA) \in DOMAIN DeviceRootFiles
    /\ MatchingPairs(Mod2File(NameA)) # {}
    /\ searched[1] = Mod2File(NameA)
    /\ fileMap[Mod2File(NameA)].Base = DevicePath(CurrentDevice)
    /\ fileMap[Mod2File(NameA)].Hash # LastSelected(Mod2File(NameA)).Hash
    /\ \E i \in DOMAIN CurrentManifestDoc.files :
          /\ CurrentManifestDoc.files[i].path = Mod2File(NameA)
          /\ CurrentManifestDoc.files[i].hash = DeviceRootFiles[Mod2File(NameA)].Hash

(***************************************************************************)
(* C4.  Search-order precedence: library before core.                      *)
(***************************************************************************)
\* the module stage is running or has just ended: the file map holds what
\* AddFilesFromModule recorded and nothing else
ModuleStage == pc \in {"NextModule", "AddFilesFromModule", "AddOtherFiles"}

FirstLibRoot == LibRootPath(fwDef.Libs[1])

\* the module paths held by both the first-declared library root and the core root
InFirstLibAndCore ==
    {p \in DOMAIN fileMap :
        /\ FirstLibRoot \in DOMAIN roots
        /\ p \in DOMAIN roots[FirstLibRoot].Files
        /\ p \in DOMAIN roots[CoreRoot].Files}

\* C4 as claimed: a module whose path is in the device's first-declared library
\* root and in the core root resolves to the library root's entry.
C4_AsClaimed ==
    ModuleStage /\ fwDef.Libs # <<>> =>
        \A p \in InFirstLibAndCore : fileMap[p] = roots[FirstLibRoot].Files[p]

\* C4 as amended: a module whose path is in the device's first-declared library
\* root and in the core root resolves to the library root's entry, provided
\* that library's IncludeLua flag is set; a library with the flag unset is not
\* searched at all.
C4_LibraryBeforeCore ==
    ModuleStage /\ fwDef.Libs # <<>> /\ fwDef.Libs[1].IncludeLua =>
        \A p \in InFirstLibAndCore : fileMap[p] = roots[FirstLibRoot].Files[p]

\* the module stage has ended with a.lua, held by the first-declared library
\* (flag set) and by the core root, resolved to the library's entry
C4_Witness ==
    /\ pc = "AddOtherFiles"
    /\ fwDef.Libs # <<>>
    /\ fwDef.Libs[1].IncludeLua
    /\ Mod2File(NameA) \in InFirstLibAndCore
    /\ fileMap[Mod2File(NameA)].Base = FirstLibRoot
    /\ fileMap[Mod2File(NameA)].Hash # roots[CoreRoot].Files[Mod2File(NameA)].Hash

(***************************************************************************)
(* C5.  Unique module resolution by search order.                          *)
(***************************************************************************)
\* the entry of p in the earliest root of rootSeq that is indexed and holds p
EarliestHolding(p, rootSeq) ==
    LET hits == {i \in DOMAIN rootSeq :
                    rootSeq[i] \in DOMAIN roots /\ p \in DOMAIN roots[rootSeq[i]].Files}
    IN  roots[rootSeq[CHOOSE i \in hits : \A j \in hits : i <= j]].Files[p]

\* the device's libraries in declared order, then the core root
DeclaredRoots == [i \in DOMAIN fwDef.Libs |-> LibRootPath(fwDef.Libs[i])] \o <<CoreRoot>>

\* the same, without the libraries whose IncludeLua flag is unset
ParticipatingRoots ==
    LET inc == SelectSeq(fwDef.Libs, LAMBDA l : l.IncludeLua)
    IN  [i \in DOMAIN inc |-> LibRootPath(inc[i])] \o <<CoreRoot>>

ListedOnce(p) == Cardinality({i \in DOMAIN manifest.Files : manifest.Files[i].Path = p}) = 1

\* C5 as claimed: every resolved module has one entry in the final file set,
\* and unless the device's own root holds its path that entry is the one of the
\* earliest root, in the order "libraries as declared, then core", holding it.
C5_AsClaimed ==
    FileSetFinal =>
        \A p \in Range(searched) :
            /\ ListedOnce(p)
            /\ p \notin DOMAIN DeviceRootFiles => fileMap[p] = EarliestHolding(p, DeclaredRoots)

\* C5 as amended: every resolved module has one entry in the final file set;
\* the module stage records for it the entry of the earliest root holding its
\* path, in the order "libraries whose IncludeLua flag is set, as declared, then
\* core"; and that entry is the final one unless the device's own root holds the
\* path or an include pattern of one of the device's libraries selects the path
\* in that library's root.
C5_UniqueResolution ==
    /\ ModuleStage =>
          \A p \in DOMAIN fileMap : fileMap[p] = EarliestHolding(p, ParticipatingRoots)
    /\ FileSetFinal =>
          \A p \in Range(searched) :
              /\ ListedOnce(p)
              /\ p \notin DOMAIN DeviceRootFiles /\ MatchingPairs(p) = {} =>
                    fileMap[p] = EarliestHolding(p, ParticipatingRoots)

\* two searched libraries and the core root all hold a.lua, the device root
\* does not, no pattern selects it: the final entry is the one of the library
\* declared first (l2, declared before l1)
C5_Witness ==
    /\ FileSetFinal
    /\ Len(fwDef.Libs) = 2
    /\ fwDef.Libs[1].Name = "l2"
    /\ fwDef.Libs[1].IncludeLua /\ fwDef.Libs[2].IncludeLua
    /\ \A r \in Range(DeclaredRoots) : Mod2File(NameA) \in DOMAIN roots[r].Files
    /\ Mod2File(NameA) \in Range(searched)
    /\ Mod2File(NameA) \notin DOMAIN DeviceRootFiles
    /\ MatchingPairs(Mod2File(NameA)) = {}
    /\ fileMap[Mod2File(NameA)].Base = Join(LibDir, "l2")

(***************************************************************************)
(* C6.  Image determinism.                                                 *)
(***************************************************************************)
DeviceNames == DOMAIN defs

\* C6 as claimed: a second build over the same trees leaves, for every device,
\* an image file equal to the one the first build left.
C6_ImageDeterminism ==
    run > 1 /\ pc = "done" =>
        \A d \in DeviceNames :
            dist[ImageName(defs[d].ID)] = prevDist[ImageName(defs[d].ID)]

(***************************************************************************)
(* C7.  Manifest ordering.                                                 *)
(***************************************************************************)
AscendingPaths(files) ==
    \A i, j \in DOMAIN files : i < j => StrLess(files[i].path, files[j].path)

\* C7 as claimed: the entries of every manifest document written are in
\* ascending lexicographic order of their paths, at the moment WriteJSON is
\* called and in the file it leaves.
C7_ManifestSorted ==
    /\ pc = "WriteJSON" => AscendingPaths(ManifestJSON(manifest).files)
    /\ \A doc \in WholeManifests : AscendingPaths(doc.files)

(***************************************************************************)
(* C8.  Missing dependency.                                                *)
(***************************************************************************)
\* the error ends with ErrFileEntryNotFound
FileNotFoundInRoots(e) ==
    /\ e # NoErr
    /\ e[Len(e)].kind = "text"
    /\ e[Len(e)].val = "Cannot find file in firmware roots"

\* the message has value v as an argument of the given kind
Names(e, kind, v) == \E i \in DOMAIN e : e[i].kind = kind /\ e[i].val = v

\* the message names, as a module, the module whose file was not found
NamesMissingModule(e) ==
    \E i \in DOMAIN e : e[i].kind = "module" /\ Mod2File(e[i].val) = e[Len(e) - 1].val

ManifestWritten(d) == ManifestName(defs[d].ID) \in DOMAIN dist
ImageWritten(d) == ImageName(defs[d].ID) \in DOMAIN dist

\* C8 as claimed: a build that fails because a module has no file in any
\* searched root returns an error that names the module and the device being
\* built, and dist holds neither a manifest nor an image of that device.
C8_MissingDependency ==
    pc = "failed" /\ FileNotFoundInRoots(err) =>
        /\ NamesMissingModule(err)
        /\ Names(err, "name", CurrentDevice)
        /\ ~ManifestWritten(CurrentDevice)
        /\ ~ImageWritten(CurrentDevice)

(***************************************************************************)
(* C9.  All-or-nothing device output.                                      *)
(***************************************************************************)
ManifestWhole(d) == ManifestWritten(d) /\ "files" \in DOMAIN dist[ManifestName(defs[d].ID)]

\* the image file is a checksum line followed by the payload it is the digest of
ImageWhole(d) ==
    /\ ImageWritten(d)
    /\ LET img == dist[ImageName(defs[d].ID)]
       IN  Len(img) > 1 /\ img[1] = ChecksumLine(Tail(img))

DeviceComplete(d) == ManifestWhole(d) /\ ImageWhole(d)

\* C9 as claimed: when Build2 has returned, every device has both its manifest
\* and its whole image in dist, or neither file.
C9_AllOrNothing ==
    pc \in {"done", "failed"} =>
        \A d \in DeviceNames :
            DeviceComplete(d) \/ (~ManifestWritten(d) /\ ~ImageWritten(d))

(***************************************************************************)
(* C10.  Fail-fast across devices.                                         *)
(***************************************************************************)
\* nothing of device d is in dist, and its root was not indexed
DeviceUntouched(d) ==
    /\ ~ManifestWritten(d)
    /\ ~ImageWritten(d)
    /\ DevicePath(d) \notin DOMAIN roots

\* C10: devices are built one after another in the order of the directory
\* listing: while device number di is built, and after Build2 has returned,
\* every earlier device has its manifest and whole image in dist and no later
\* device has been touched; an error ends Build2 at once (nothing more happens
\* after it).
C10_FailFast ==
    /\ err # NoErr => pc = "failed"
    /\ pc = "failed" => ~ENABLED Next
    /\ \A j \in DOMAIN deviceLibs :
          /\ j < di => DeviceComplete(deviceLibs[j])
          /\ j > di => DeviceUntouched(deviceLibs[j])

\* the first device is complete, the build of the second has failed, Build2
\* has returned the error, and the first device's files are still in dist
C10_Witness ==
    /\ pc = "failed"
    /\ di = 2
    /\ DeviceComplete(deviceLibs[1])
    /\ ~ImageWritten(deviceLibs[2])

(***************************************************************************)
(* C11.  Glob selection.                                                   *)
(***************************************************************************)
\* the paths some include pattern of a library of the device selects in that
\* library's root
SelectedPaths == {p \in IndexedPaths : MatchingPairs(p) # {}}

\* C11: when AddOtherFiles has returned, the file set holds exactly the paths
\* the module stage resolved and the paths the include patterns select in
\* their libraries' roots, whatever the library's IncludeLua flag; every
\* selected path is still in the final file set.
C11_GlobSelection ==
    /\ pc = "AddDeviceSpecificFiles" =>
          DOMAIN fileMap = Range(searched) \cup SelectedPaths
    /\ FileSetFinal => SelectedPaths \subseteq DOMAIN fileMap

\* library l1, left out of the dependency search, declares "*.cfg": its x.cfg,
\* which no module requires, is in the file set with l1's entry, and its a.lua,
\* which the pattern does not match, was not added (a.lua is there from core)
C11_Witness ==
    /\ pc = "AddDeviceSpecificFiles"
    /\ \E i \in DOMAIN fwDef.Libs :
          /\ fwDef.Libs[i].Name = "l1"
          /\ ~fwDef.Libs[i].IncludeLua
          /\ fwDef.Libs[i].Include = <<CfgGlob>>
    /\ CfgFile \notin Range(searched)
    /\ CfgFile \in DOMAIN fileMap
    /\ fileMap[CfgFile].Base = Join(LibDir, "l1")
    /\ Mod2File(NameA) \in DOMAIN roots[Join(LibDir, "l1")].Files
    /\ fileMap[Mod2File(NameA)].Base = CoreRoot

(***************************************************************************)
(* C12.  Library participation flag.                                       *)
(***************************************************************************)
\* the roots of the libraries of definition def whose IncludeLua flag is set
FlaggedRoots(def) == {LibRootPath(l) : l \in {x \in Range(def.Libs) : x.IncludeLua}}

\* C12: the search list of a device holds the root of a library of the device
\* if and only if the library's IncludeLua flag is set, and ends with the core
\* root; the module stage records entries of those roots only; and when the
\* build fails because a module's file was not found, neither the core root
\* nor the root of any flagged library holds that file.
C12_ParticipationFlag ==
    /\ InDeviceBuild =>
          /\ devRoots # <<>>
          /\ devRoots[Len(devRoots)] = CoreRoot
          /\ \A l \in Range(fwDef.Libs) :
                LibRootPath(l) \in Range(devRoots) <=> LibRootPath(l) \in FlaggedRoots(fwDef)
    /\ ModuleStage =>
          \A p \in DOMAIN fileMap : fileMap[p].Base \in FlaggedRoots(fwDef) \cup {CoreRoot}
    /\ pc = "failed" /\ FileNotFoundInRoots(err) =>
          \A r \in FlaggedRoots(defs[CurrentDevice]) \cup {CoreRoot} :
              err[Len(err) - 1].val \notin DOMAIN roots[r].Files

\* y.lua is only in library l1, whose flag is unset: the build of the device
\* with entry module y has failed with not-found although l1's root holds y.lua
C12_Witness ==
    /\ pc = "failed"
    /\ FileNotFoundInRoots(err)
    /\ err[Len(err) - 1].val = Mod2File(NameY)
    /\ Mod2File(NameY) \in DOMAIN roots[Join(LibDir, "l1")].Files
    /\ \E l \in Range(defs[CurrentDevice].Libs) : l.Name = "l1" /\ ~l.IncludeLua

(***************************************************************************)
(* C13.  The datafiles record.                                             *)
(***************************************************************************)
\* the datafile tokens of the files the manifest document of device d lists
ManifestTokens(d) ==
    LET doc == dist[ManifestName(defs[d].ID)]
    IN  UNION {Range(doc.files[i].Datafiles) : i \in DOMAIN doc.files}

\* C13: every whole image ends with the record named datafiles.json, whose
\* content is a JSON array, never null, of the datafile tokens of the included
\* files; with no token at all it is the empty array, of length 2.
C13_DatafilesRecord ==
    \A d \in DeviceNames : DeviceComplete(d) =>
        LET img == dist[ImageName(defs[d].ID)]
            content == img[Len(img)][2]
        IN  /\ img[Len(img) - 2] = <<"path", DatafilesName>>
            /\ content.json = "array"
            /\ Range(content.items) = ManifestTokens(d)
            /\ ManifestTokens(d) = {} =>
                  content.items = <<>> /\ img[Len(img) - 1] = <<"size", 2>>

\* device d1 is built from scripts none of which declares a datafile, and its
\* image ends with the empty array
C13_Witness ==
    /\ pc = "done"
    /\ DeviceComplete("d1")
    /\ ManifestTokens("d1") = {}
    /\ \E i \in DOMAIN dist[ManifestName(defs["d1"].ID)].files :
          Ext(dist[ManifestName(defs["d1"].ID)].files[i].path) = LuaExt
    /\ LET img == dist[ImageName(defs["d1"].ID)]
       IN  img[Len(img)] = <<"raw", [json |-> "array", items |-> <<>>]>>

(***************************************************************************)
(* C14.  Image layout.                                                     *)
(***************************************************************************)
\* the devices whose build has ended without error in this run
BuiltDevices == {deviceLibs[j] : j \in {k \in DOMAIN deviceLibs : k < di}}

HeaderLines == 5

\* the position in the image file of the path line of the k-th record
RecordStart(k) == 1 + HeaderLines + 3 * (k - 1) + 1

\* C14: the image of a built device whose manifest lists n files is the
\* checksum line, the header with record count n + 1, then n file records
\* (path, byte length, raw content of the listed file) in strictly ascending
\* order of path, then the datafiles record; the checksum is the digest of
\* everything after the checksum line.
C14_ImageLayout ==
    \A d \in BuiltDevices :
        LET img == dist[ImageName(defs[d].ID)]
            doc == dist[ManifestName(defs[d].ID)]
            n == Len(doc.files)
        IN  /\ Len(img) = 1 + HeaderLines + 3 * n + 3
            /\ img[1] = <<"Checksum: ", Sha1(SubSeq(img, 2, Len(img)))>>
            /\ img[3] = <<"Device Id: ", defs[d].ID>>
            /\ img[5] = <<"Total files: ", n + 1>>
            /\ \A k \in 1..n :
                  /\ img[RecordStart(k)][1] = "path"
                  /\ \E i \in 1..n :
                        /\ doc.files[i].path = img[RecordStart(k)][2]
                        /\ img[RecordStart(k) + 2] =
                               <<"raw", disk[doc.files[i].base][doc.files[i].path]>>
                        /\ img[RecordStart(k) + 1] =
                               <<"size", Size(disk[doc.files[i].base][doc.files[i].path])>>
                  /\ k < n => StrLess(img[RecordStart(k)][2], img[RecordStart(k + 1)][2])
            /\ img[RecordStart(n + 1)] = <<"path", DatafilesName>>

\* the image of d1 holds two or more file records in ascending order although
\* the manifest document lists the files in another order
C14_Witness ==
    /\ pc = "done"
    /\ "d1" \in BuiltDevices
    /\ LET doc == dist[ManifestName(defs["d1"].ID)]
           img == dist[ImageName(defs["d1"].ID)]
       IN  /\ Len(doc.files) >= 2
           /\ ~AscendingPaths(doc.files)
           /\ StrLess(img[RecordStart(1)][2], img[RecordStart(2)][2])

(***************************************************************************)
(* C15.  Cache key purity.                                                 *)
(***************************************************************************)
\* the script files bundled for log record r: one item per listing of a
\* library and script of that library
Bundled(r) ==
    UNION {{[k |-> k, fileName |-> n] :
               n \in {x \in DOMAIN r.files[r.lfs[k]] : Ext(x) = LuaExt}} : k \in DOMAIN r.lfs}

\* the set of the content hashes of the bundled files
HashSet(r) == {r.files[r.lfs[b.k]][b.fileName] : b \in Bundled(r)}

\* the items in ascending order of file name: the least first
RECURSIVE ByName(_)
ByName(items) ==
    IF items = {} THEN <<>>
    ELSE LET least == CHOOSE x \in items : \A y \in items : ~StrLess(y.fileName, x.fileName)
         IN  <<least>> \o ByName(items \ {least})

\* the content hashes of the bundled files in ascending order of file name
HashesByName(r) ==
    LET o == ByName(Bundled(r))
    IN  [i \in DOMAIN o |-> r.files[r.lfs[o[i].k]][o[i].fileName]]

\* C15 as claimed: two bundles with the same set of content hashes have the
\* same cache key.
C15_AsClaimed ==
    \A i, j \in DOMAIN lfsLog :
        HashSet(lfsLog[i]) = HashSet(lfsLog[j]) => lfsLog[i].key = lfsLog[j].key

\* C15 as amended: the cache key of every bundle is the digest of the content
\* hashes of the bundled script files taken in ascending order of file name;
\* it is that function of them whatever the order in which the libraries are
\* listed or the maps are iterated, and depends on nothing else.
C15_KeyByName ==
    \A i \in DOMAIN lfsLog : lfsLog[i].key = Sha1(HashesByName(lfsLog[i]))

\* the same two libraries were bundled listed in one order and in the other,
\* and the key was the same
C15_Witness ==
    \E i, j \in DOMAIN lfsLog :
        /\ lfsLog[i].lfs = <<"l2", "l1">>
        /\ lfsLog[j].lfs = <<"l1", "l2">>
        /\ lfsLog[i].files = lfsLog[j].files
        /\ Cardinality(Bundled(lfsLog[i])) = 4
        /\ lfsLog[i].key = lfsLog[j].key

(***************************************************************************)
(* C16.  Cache reuse and append-only.                                      *)
(***************************************************************************)
\* a step of build() that provides an LFS image: the record it logs
LfsStep == Len(lfsLog') = Len(lfsLog) + 1

C16_Step ==
    /\ \A f \in DOMAIN imgcache : f \in DOMAIN imgcache' /\ imgcache'[f] = imgcache[f]
    /\ ~LfsStep => imgcache' = imgcache
    /\ LfsStep =>
          LET r == lfsLog'[Len(lfsLog')]
              img == LfsImgFile(r.id)
          IN  /\ r.cached <=> r.cacheImgFile \in DOMAIN imgcache
              /\ r.compiled <=> ~r.cached
              /\ r.cached => imgcache' = imgcache
              /\ pc' = "manifest" =>
                    /\ r.cacheImgFile \in DOMAIN imgcache'
                    /\ dist'[img] = imgcache'[r.cacheImgFile]
                    /\ r.compiled => imgcache'[r.cacheImgFile] # LuacPartial

\* C16: no step of any invocation of build() changes or removes a file of
\* imgcache; the compiler runs exactly when the cache has no file under the
\* computed name, and then its output is stored under that name; otherwise
\* the cache is left as it is; the image put in dist is the cached one.
C16_CacheReuse == [][C16_Step]_vars

\* an image compiled and stored by one invocation was reused by a later one
\* without compiling
C16_Witness ==
    /\ pc = "manifest"
    /\ \E i, j \in DOMAIN lfsLog :
          /\ lfsLog[i].run < lfsLog[j].run
          /\ j = Len(lfsLog)
          /\ lfsLog[i].cacheImgFile = lfsLog[j].cacheImgFile
          /\ lfsLog[i].compiled /\ ~lfsLog[i].cached
          /\ lfsLog[j].cached /\ ~lfsLog[j].compiled
          /\ dist[LfsImgFile(lfsLog[j].id)] = imgcache[lfsLog[j].cacheImgFile]

(***************************************************************************)
(* C17.  Library asset selection errors.                                   *)
(***************************************************************************)
HasText(e, t) == \E i \in DOMAIN e : e[i].kind = "text" /\ e[i].val = t

GlobSyntaxError(e) == HasText(e, "Error in glob expression, library")

RootNotFound(e) ==
    HasText(e, "Cannot find library") \/ HasText(e, "Cannot find library with name")

\* the message quotes pattern p
NamesPattern(e, p) == \E i \in DOMAIN e : e[i].kind = "pattern" /\ e[i].val = p

\* C17 as claimed: AddOtherFiles succeeds only if every include pattern
\* compiles and every library declaring one is indexed; a glob error names
\* the library and the pattern that does not compile, a missing root names the
\* library, and in both cases no manifest of the device is written.
C17_SelectionErrors ==
    /\ pc = "AddDeviceSpecificFiles" \/ FileSetFinal =>
          \A k \in DOMAIN IncludePairs(fwDef.Libs) :
              /\ GlobCompiles(IncludePairs(fwDef.Libs)[k].pattern)
              /\ LibRootPath(IncludePairs(fwDef.Libs)[k].lib) \in DOMAIN roots
    /\ pc = "failed" /\ GlobSyntaxError(err) =>
          /\ \E l \in Range(defs[CurrentDevice].Libs) :
                /\ Names(err, "name", l.Name)
                /\ \E j \in DOMAIN l.Include :
                      ~GlobCompiles(l.Include[j]) /\ NamesPattern(err, l.Include[j])
          /\ ~ManifestWritten(CurrentDevice)
    /\ pc = "failed" /\ RootNotFound(err) =>
          /\ \E l \in Range(defs[CurrentDevice].Libs) :
                Names(err, "name", l.Name) /\ LibRootPath(l) \notin DOMAIN roots
          /\ ~ManifestWritten(CurrentDevice)

(***************************************************************************)
(* C18.  Root indexing failure.                                            *)
(***************************************************************************)
\* e is the error of a failed read of path, unwrapped
IsIOErrorOf(e, path) ==
    /\ Len(e) = 2
    /\ e[1].kind = "text" /\ e[1].val = "io error"
    /\ e[2].kind = "name" /\ e[2].val = path

\* the roots Build2 has tried to index so far
RootsTried ==
    (IF pc \in {"Build2", "AddCoreRoot"} THEN {} ELSE {CoreRoot})
        \cup {Join(LibDir, siteLibs[j]) : j \in {k \in DOMAIN siteLibs : k < li}}
        \cup {DevicePath(deviceLibs[j]) :
                 j \in {k \in DOMAIN deviceLibs : k < di \/ (k = di /\ pc # "AddDeviceRoot")}}

\* C18 as claimed: Build2 does not go on past a root whose indexing failed
\* (while it runs, and when it has returned nil, every root it has tried to
\* index is in the roots map), and a root whose indexing error Build2 returned
\* is not in the roots map.
C18_IndexingFailure ==
    /\ pc # "failed" => RootsTried \subseteq DOMAIN roots
    /\ pc = "failed" =>
          \A r \in DOMAIN disk : IsIOErrorOf(err, r) => r \notin DOMAIN roots

\* the same for the core root and the library roots only
CoreAndLibRootsIndexed ==
    pc # "failed" =>
        (RootsTried \ {DevicePath(d) : d \in Range(deviceLibs)}) \subseteq DOMAIN roots

(***************************************************************************)
(* C19.  Dependency-closed resolver result.                                *)
(***************************************************************************)
\* the paths the entry at path p declares as dependencies
DeclaredDependencies(p) == {Mod2File(d) : d \in Range(fileMap[p].Dependencies)}

\* there is a chain of declared dependencies, within the file map, from an
\* entry module to p, of at most n further links
RECURSIVE ReachableWithin(_, _)
ReachableWithin(p, n) ==
    \/ p \in EntryPaths
    \/ /\ n > 0
       /\ \E q \in DOMAIN fileMap : p \in DeclaredDependencies(q) /\ ReachableWithin(q, n - 1)

\* C19: when every AddFilesFromModule call for the entry modules of a device
\* has returned without error, the file map is closed under declared
\* dependencies (for every entry of the map and every module name in its
\* Dependencies, Mod2File(name) is a key of the map), and every key of the map
\* is reachable from an entry module through declared dependencies.
C19_DependencyClosed ==
    pc = "AddOtherFiles" =>
        /\ \A p \in DOMAIN fileMap : DeclaredDependencies(p) \subseteq DOMAIN fileMap
        /\ \A p \in DOMAIN fileMap : ReachableWithin(p, Cardinality(DOMAIN fileMap))

\* the module stage has ended with a file held that is not an entry module's
\* and so is there through a dependency, and an indexed script left out
\* because nothing held requires it
C19_Witness ==
    /\ pc = "AddOtherFiles"
    /\ DOMAIN fileMap \ EntryPaths # {}
    /\ \E q \in IndexedPaths \ DOMAIN fileMap : q \in {Mod2File(m) : m \in CoreModules}

(***************************************************************************)
(* C20.  Overlay stages do not resolve dependencies.                       *)
(***************************************************************************)
\* the step from file map fm to file map fm2 removes no path and adds or
\* replaces only paths of the set touched
OverlayOnly(fm, fm2, touched) ==
    /\ DOMAIN fm \subseteq DOMAIN fm2
    /\ DOMAIN fm2 \ DOMAIN fm \subseteq touched
    /\ \A p \in DOMAIN fm : fm2[p] # fm[p] => p \in touched

\* the entries of the file map with a declared dependency the map does not hold
OpenEntries == {p \in DOMAIN fileMap : ~(DeclaredDependencies(p) \subseteq DOMAIN fileMap)}

C20_Step ==
    /\ pc = "AddOtherFiles" /\ pc' = "AddDeviceSpecificFiles" =>
          /\ OverlayOnly(fileMap, fileMap', SelectedPaths)
          /\ searched' = searched
    /\ pc = "AddDeviceSpecificFiles" /\ pc' = "WriteJSON" =>
          /\ OverlayOnly(fileMap, fileMap', DOMAIN DeviceRootFiles)
          /\ searched' = searched

\* C20: a call of AddOtherFiles or AddDeviceSpecificFiles that returns without
\* error removes no path from the file set and adds or replaces only the paths
\* the include patterns select in their libraries' roots, respectively the
\* paths of the device root's files; it hands no path to FindInRoots, so the
\* dependencies of the files it brings are neither searched for nor added;
\* and the device's own root is never in the module search list.
C20_OverlayNoResolve ==
    /\ [](InDeviceBuild => DevicePath(CurrentDevice) \notin Range(devRoots))
    /\ [][C20_Step]_vars

\* both overlay stages have run: the file set holds y.lua from library l1 and
\* w.lua from the device root, core holds the files of the modules they
\* require (b and l.c), and neither file is in the set nor was searched for
C20_Witness ==
    /\ pc = "WriteJSON"
    /\ {Mod2File(NameY), Mod2File(NameW)} \subseteq OpenEntries
    /\ fileMap[Mod2File(NameY)].Base = Join(LibDir, "l1")
    /\ fileMap[Mod2File(NameW)].Base = DevicePath(CurrentDevice)
    /\ {Mod2File(NameB), Mod2File(NameC)} \subseteq DOMAIN roots[CoreRoot].Files
    /\ {Mod2File(NameB), Mod2File(NameC)} \cap (DOMAIN fileMap \cup Range(searched)) = {}

(***************************************************************************)
(* C21.  Dumper exclusion.                                                 *)
(***************************************************************************)
\* the dumper goroutines that have not ended (none once the process has exited)
RunningDumpers == IF exited THEN {} ELSE {g \in DOMAIN dumpers : dumpers[g] # "exited"}

\* the threads executing a slash-command handler: Stop has returned, the
\* deferred Dump has not begun
InHandler == {k \in DOMAIN threads : threads[k].pc = "handler"}

\* a call of Stop returns only when every goroutine that Dump had started
\* before the call has ended
C21_StopReturn ==
    \A k \in DOMAIN threads :
        Receive(k) => \A g \in RunningDumpers : g > threads[k].seen

\* C21: in every interleaving of the dumper goroutines, the command
\* goroutines and the shutdown of Run, at most one dumper goroutine is running
\* (so at most one reads from the session); while a slash-command handler
\* executes none is running; and Stop returns only after the goroutine the
\* preceding Dump started has ended.
C21_DumperExclusion ==
    /\ [](Cardinality(RunningDumpers) <= 1)
    /\ [](InHandler # {} => RunningDumpers = {})
    /\ [][C21_StopReturn]_vars

\* the handler of the second slash command executes, the goroutines of both
\* earlier calls of Dump have ended, and Run's deferred Stop is under way
C21_Witness ==
    /\ ~exited
    /\ InHandler # {}
    /\ dumpers = <<"exited", "exited">>
    /\ threads[MainThread].pc \in {"Stop40", "Receive"}

(***************************************************************************)
(* C22.  Serialized command execution.                                     *)
(***************************************************************************)
\* the goroutines running a command function that has not returned
RunningCommands == {k \in DOMAIN threads : k # MainThread /\ threads[k].pc # "ended"}

IsPrefix(s, t) == Len(s) <= Len(t) /\ s = SubSeq(t, 1, Len(s))

\* command functions run one at a time and are called in the order the
\* lines were submitted
OneAtATimeInOrder ==
    /\ Cardinality(RunningCommands) <= 1
    /\ IsPrefix(started, submitted)

\* C22: the command functions sent on the commands channel run one at a time,
\* in the order they were submitted (command k+1 is not called before command
\* k has returned), and every command sent is eventually called, unless the
\* process has ended by then.
C22_SerializedExecution ==
    /\ []OneAtATimeInOrder
    /\ \A i \in 1..MaxCommands : (Len(submitted) >= i) ~> (Len(started) >= i \/ exited)

\* the same, for as long as the event loop runs: a command sent is called,
\* unless the application is stopped first
CalledWhileRunning ==
    \A i \in 1..MaxCommands :
        (Len(submitted) >= i) ~>
            (Len(started) >= i \/ exited \/ threads[MainThread].pc # "appRun")

(***************************************************************************)
(* C23.  History cursor bounds.                                            *)
(***************************************************************************)
\* C23: after any sequence of Enter, Up and Down key events the cursor is
\* between 0 and len(history), every read history[historyPos] the Up and Down
\* handlers made was within bounds, and no two consecutive entries of history
\* are equal.
C23_HistoryCursor ==
    /\ 0 <= historyPos /\ historyPos <= Len(history)
    /\ \A a \in accessLog : 0 <= a.index /\ a.index < a.len
    /\ \A i \in 1..(Len(history) - 1) : history[i] # history[i + 1]

\* two lines were entered, Up has read both entries and Down the newer one
\* again, which the input field now holds
C23_Witness ==
    /\ ~exited
    /\ Len(history) = 2
    /\ historyPos = 1
    /\ accessLog = {[index |-> 0, len |-> 2], [index |-> 1, len |-> 2]}
    /\ inputText = history[2]

====
